---- MODULE Spec2Model ----
(***************************************************************************)
(* A model of the fstools-rs virtual filesystem (crates/dvdbnd/src/lib.rs) *)
(* DvdBnd::create, DvdBnd::open and DvdBnd::read_file.                     *)
(*                                                                         *)
(* Bytes are symbolic.  A byte of an archive data file is named by its     *)
(* place (archive, offset); what the model records for it is the sequence  *)
(* of AES block decryptions applied to it, each a tag <<key, block start,  *)
(* clean>> where clean says that all 16 input bytes of the block were      *)
(* still the archive's bytes when the block was decrypted.                 *)
(***************************************************************************)
EXTENDS Integers, Sequences, FiniteSets, TLC

\* ---------------------------------------------------------------- bounds

\* Rust's u64/usize/i64 are 64 bits wide; TLC's integers are 32 bits wide, so
\* the model keeps the wrap-around arithmetic at a narrower width.
WordBits == 8
\* Archives given to DvdBnd::create.
MaxArchives == 2
\* Calls of open()/read_file() in one run (they may overlap in time).
MaxCalls == 2
\* Encrypted ranges declared by one index record.
MaxRanges == 2
\* Length of an archive data file (.bdt) in bytes.
FileLen == 64

\* The members a container of the extraction holds at most.
MaxMembers == 2

\* The characters a dictionary text has at most.
MaxText == 5

\* The largest type discriminant an MSB record is given.
MaxType == 60

\* ------------------------------------------------------ program constants

\* Aes128::block_size()
BlockSize == 16

U64 == 2 ^ WordBits

\* `x as u64` of an i64 (two's complement reinterpretation).
AsU64(x) == x % U64

\* u64 subtraction as the build compiles it: with overflow checks (debug) an
\* underflow panics, without them (release) it wraps.
WrappingSub(a, b) == (a - b) % U64

Calls == 1 .. MaxCalls
Hashes == {1, 2}

\* ------------------------------------------------------------- variables

VARIABLES
    build,      \* "debug" (overflow checks on) or "release" (off)
    paths,      \* the archive_paths given to create: what is on disk
    bdt,        \* contents of every archive data file, by archive position
    vfs,        \* create: "building", "err" (Err returned), "ok" (DvdBnd returned)
    cidx,       \* create: enumerate() index of the next archive, 0-based
    archives,   \* DvdBnd.archives: Vec<File>, as positions into paths
    entries,    \* DvdBnd.entries: HashMap<Name, VfsFileEntry>
    callers,    \* the threads that call into the filesystem
    calls,      \* the open() calls, by call id
    proc,       \* "running", or "aborted" once a fault has killed the process
    platform,   \* "windows" or "unix": decides what std::path takes as a separator
    content,    \* what the bytes of every archive entry hold, by archive and offset
    reads,      \* the read_file() calls, by call id
    dict,       \* the lines of the game's dictionary, as paths
    cwd,        \* the directories of the process's working directory, as relative paths
    ext,        \* the extract() call: its arguments, the filtered lines, its result
    cands,      \* extract: what became of every candidate, by line index
    folds,      \* extract: the try_fold accumulator of every worker
    disk,       \* the files under <output>/<game>, by relative path
    dirs,       \* the directories under <output>/<game>, as relative paths
    dictfile,   \* the text DvdBnd::dictionary is given, and whether it was read
    describes,  \* the describe calls of the command line, by call id
    msb         \* the MSB record given to read_entry, and what decoding it gave

vars ==
    <<build, paths, bdt, vfs, cidx, archives, entries, callers, calls, proc,
      platform, content, reads, dict, cwd, ext, cands, folds, disk, dirs, dictfile, describes, msb>>

\* What DvdBnd::create and the steps of DvdBnd::open leave alone.
readvars == <<platform, content, reads>>

\* What create, open and read_file leave alone: the state of extract and of
\* the dictionary.
extractvars == <<dict, cwd, ext, cands, folds, disk, dirs, dictfile, describes, msb>>


\* ------------------------------------------------- DvdBnd::create, pure parts

\* The filter of the aes_ranges conversion: (-1, -1) and start == end are dropped.
RangeKept(range) ==
    /\ ~(range[1] = -1 /\ range[2] = -1)
    /\ range[1] # range[2]

\* Some(start as u64..end as u64)
ConvertRange(range) == [start |-> AsU64(range[1]), end |-> AsU64(range[2])]

RECURSIVE AesRanges(_)
AesRanges(encrypted_ranges) ==
    IF encrypted_ranges = <<>> THEN <<>>
    ELSE LET rest == AesRanges(Tail(encrypted_ranges))
         IN  IF RangeKept(Head(encrypted_ranges))
             THEN <<ConvertRange(Head(encrypted_ranges))>> \o rest
             ELSE rest

\* Mutant of VfsFileEntry: every entry is given the index of the first
\* archive.
VfsFileEntryOfFirst(index, entry) ==
    [archive                |-> 0,
     file_size              |-> entry.size,
     file_size_with_padding |-> entry.padded_size,
     file_offset            |-> entry.offset,
     aes_key                |-> entry.aes_key,
     aes_ranges             |-> AesRanges(entry.encrypted_ranges)]

\* The VfsFileEntry built from one table-of-contents record of archive `index`.
VfsFileEntry(index, entry) ==
    [archive                |-> index,
     file_size              |-> entry.size,
     file_size_with_padding |-> entry.padded_size,
     file_offset            |-> entry.offset,
     aes_key                |-> entry.aes_key,
     aes_ranges             |-> AesRanges(entry.encrypted_ranges)]

\* Mutant of Insert: the first value stored under a key is kept.
InsertKeepsFirst(map, key, value) ==
    [k \in (DOMAIN map) \cup {key} |-> IF k \in DOMAIN map THEN map[k] ELSE value]

\* HashMap::insert: the value replaces the one already stored under the key.
Insert(map, key, value) ==
    [k \in (DOMAIN map) \cup {key} |-> IF k = key THEN value ELSE map[k]]

\* entries.extend(bhd.toc.into_iter().map(..)): the records are inserted in
\* table-of-contents order.
RECURSIVE Extend(_, _, _)
Extend(map, toc, index) ==
    IF toc = <<>> THEN map
    ELSE Extend(Insert(map, Head(toc).hash, VfsFileEntry(index, Head(toc))),
                Tail(toc), index)

\* Mutant of load_archive: an archive whose key is missing is taken as loaded,
\* with an empty table of contents.
load_archive_lenient(path) ==
    IF path.fail = "get_key" THEN [ok |-> TRUE, err |-> "none", bhd |-> <<>>]
    ELSE IF path.fail # "none" THEN [ok |-> FALSE, err |-> path.fail, bhd |-> <<>>]
    ELSE [ok |-> TRUE, err |-> "none", bhd |-> path.toc]

\* load_archive: every `?` of it returns the error; Ok carries the data file
\* and the decrypted table of contents.
load_archive(path) ==
    IF path.fail = "bhd_open" THEN [ok |-> FALSE, err |-> "bhd_open", bhd |-> <<>>]
    ELSE IF path.fail = "bdt_open" THEN [ok |-> FALSE, err |-> "bdt_open", bhd |-> <<>>]
    ELSE IF path.fail = "file_stem" THEN [ok |-> FALSE, err |-> "file_stem", bhd |-> <<>>]
    ELSE IF path.fail = "get_key" THEN [ok |-> FALSE, err |-> "get_key", bhd |-> <<>>]
    ELSE IF path.fail = "bhd_read" THEN [ok |-> FALSE, err |-> "bhd_read", bhd |-> <<>>]
    ELSE [ok |-> TRUE, err |-> "none", bhd |-> path.toc]

EmptyMap == [k \in {} |-> 0]

\* ------------------------------------------------------ DvdBnd::create, steps

\* One run of the try_for_each closure: load the archive, push its data file,
\* extend the entry table.  An Err ends create: the `?` after try_for_each
\* returns it and the locals are dropped.
CreateStep ==
    /\ proc = "running"
    /\ vfs = "building"
    /\ cidx < Len(paths)
    /\ LET path == paths[cidx + 1]
           loaded == load_archive(path)
       IN  IF loaded.ok
           THEN /\ archives' = Append(archives, cidx + 1)
                /\ entries' = Extend(entries, loaded.bhd, cidx)
                /\ cidx' = cidx + 1
                /\ vfs' = vfs
           ELSE /\ vfs' = "err"
                /\ archives' = <<>>
                /\ entries' = EmptyMap
                /\ cidx' = cidx
    /\ UNCHANGED <<build, paths, bdt, callers, calls, proc, readvars, extractvars>>

\* Ok(DvdBnd { archives, entries })
CreateReturn ==
    /\ proc = "running"
    /\ vfs = "building"
    /\ cidx = Len(paths)
    /\ vfs' = "ok"
    /\ UNCHANGED <<build, paths, bdt, cidx, archives, entries, callers, calls, proc, readvars, extractvars>>

\* ---------------------------------------------------- DvdBnd::open, pure parts

\* A string that is read as a path is a sequence of tokens: "/" and "\\" are
\* the two separator characters, ".." and "." are themselves, and any other
\* token is a run of ordinary characters.
\* The virtual paths a caller may ask for.
Names == { <<"/", "f1">>, <<"/", "F1">>, <<"/", "f2">> }

\* Name::from(&str): the hash of the canonicalized path (case is folded).  A
\* path that is none of the dictionary's has a hash no archive holds.
NameFrom(name) ==
    IF name \in { <<"/", "f1">>, <<"/", "F1">> } THEN 1
    ELSE IF name = <<"/", "f2">> THEN 2
    ELSE IF name = <<"/", "m", "/", "c", ".", "chrbnd", ".", "dcx">> THEN 4
    ELSE IF name = <<"/", "m", "/", "g">> THEN 5
    ELSE IF name = <<"n">> THEN 6
    ELSE 3

\* Mutant of Get: a miss falls back to some stored entry.
GetOrAny(map, key) ==
    IF key \in DOMAIN map THEN <<map[key]>>
    ELSE IF DOMAIN map # {} THEN <<map[CHOOSE k \in DOMAIN map : TRUE]>>
    ELSE <<>>

\* self.entries.get(&name): Some(entry) as <<entry>>, None as <<>>.
Get(map, key) == IF key \in DOMAIN map THEN <<map[key]>> ELSE <<>>

NoData == [o \in {} |-> <<>>]

\* The mapping of a call that has none.
NoMmap ==
    [state |-> "none", arch |-> 0, offset |-> 0, len |-> 0, private |-> TRUE,
     data |-> NoData]

\* MmapOptions::new().offset(offset).len(len).map_copy(file): a private
\* copy-on-write view of the file's bytes [offset, offset + len).
map_copy(file, offset, len) ==
    [state |-> "writable", arch |-> file, offset |-> offset, len |-> len,
     private |-> TRUE,
     data |-> [o \in 0 .. (len - 1) |-> bdt[file][offset + o]]]

\* The closure of the encrypted_blocks map over one range, collected into a
\* Result: the first Err ends the collection.  `size` is computed before the
\* bounds check; with overflow checks an underflow panics there.
RECURSIVE EncryptedBlocks(_, _, _)
EncryptedBlocks(aes_ranges, len, overflow_checks) ==
    IF aes_ranges = <<>> THEN [kind |-> "ok", blocks |-> <<>>]
    ELSE LET range == Head(aes_ranges)
             size == WrappingSub(range.end, range.start)
             num_blocks == size \div BlockSize
             rest == EncryptedBlocks(Tail(aes_ranges), len, overflow_checks)
         IN  IF overflow_checks /\ range.end < range.start
             THEN [kind |-> "panic", blocks |-> <<>>]
             ELSE IF range.start >= len \/ range.end > len
             THEN [kind |-> "corrupt", blocks |-> <<>>]
             ELSE IF rest.kind = "ok"
             THEN [kind |-> "ok",
                   blocks |-> <<[start |-> range.start, num_blocks |-> num_blocks,
                                 next |-> 0]>> \o rest.blocks]
             ELSE rest

\* Mutant of DecryptBlockAt: a chained cipher, whose output for a block
\* depends on whether the block before it is still as the archive has it.
DecryptBlockChained(data, key, at) ==
    LET clean == /\ \A o \in at .. (at + BlockSize - 1) : data[o] = <<>>
                 /\ (at >= BlockSize => data[at - 1] = <<>>)
    IN  [o \in DOMAIN data |->
            IF o \in at .. (at + BlockSize - 1)
            THEN Append(data[o], <<key, at, clean>>)
            ELSE data[o]]

\* data_cipher.decrypt_blocks on the one block at mapping offset `at`.
DecryptBlockAt(data, key, at) ==
    LET clean == \A o \in at .. (at + BlockSize - 1) : data[o] = <<>>
    IN  [o \in DOMAIN data |->
            IF o \in at .. (at + BlockSize - 1)
            THEN Append(data[o], <<key, at, clean>>)
            ELSE data[o]]

\* What a write through the mapping does to the mapped file: nothing when the
\* mapping is private.
FileAfterWrite(mmap, newdata) ==
    IF mmap.private
    THEN bdt
    ELSE [bdt EXCEPT ![mmap.arch] =
            [o \in DOMAIN bdt[mmap.arch] |->
                IF o \in mmap.offset .. (mmap.offset + mmap.len - 1)
                THEN newdata[o - mmap.offset]
                ELSE bdt[mmap.arch][o]]]

\* Mutant of EffectiveFileSize: the padded size, always.
EffectiveFileSizePadded(entry) == entry.file_size_with_padding

\* effective_file_size
EffectiveFileSize(entry) ==
    IF entry.file_size # 0 THEN entry.file_size ELSE entry.file_size_with_padding

\* DvdBndEntryReader::new(mmap, effective_file_size)
DvdBndEntryReader(mmap, effective_file_size) ==
    [mmap |-> mmap, size |-> effective_file_size]

NoReader == [mmap |-> NoMmap, size |-> 0]

NoEntry ==
    [archive |-> 0, file_size |-> 0, file_size_with_padding |-> 0, file_offset |-> 0,
     aes_key |-> "", aes_ranges |-> <<>>]

\* A call: `entry` is the &VfsFileEntry the lookup returned, `decrypted` counts
\* the blocks the call has decrypted inside its mapping, `oob` says that a
\* block write of the call landed outside its mapping.
IdleCall ==
    [pc |-> "idle", name |-> <<>>, hash |-> 0, entry |-> NoEntry, mmap |-> NoMmap,
     tasks |-> <<>>, decrypted |-> 0, oob |-> FALSE, result |-> "none",
     reader |-> NoReader]

\* --------------------------------------------------------- DvdBnd::open, steps

\* The lookup and the mapping: a miss is NotFound; a hit maps
\* file_size_with_padding bytes at file_offset of the owning archive's data
\* file, and a failure of the mapping is UnableToMap.  (The step of open()
\* itself; Open and ReadFileBegin say who calls.)
OpenBegin(c, name) ==
    /\ proc = "running"
    /\ vfs = "ok"
    /\ c \in callers
    /\ calls[c].pc = "idle"
    /\ LET hash == NameFrom(name)
           got == Get(entries, hash)
           call == [calls[c] EXCEPT !.name = name, !.hash = hash]
       IN  IF got = <<>>
           THEN calls' = [calls EXCEPT ![c] =
                    [call EXCEPT !.pc = "done", !.result = "NotFound"]]
           ELSE \E mapped \in BOOLEAN :
                LET entry == got[1]
                    archive_file == archives[entry.archive + 1]
                IN  calls' = [calls EXCEPT ![c] =
                        IF mapped
                        THEN [call EXCEPT !.pc = "mapped", !.entry = entry,
                                  !.mmap = map_copy(archive_file, entry.file_offset,
                                                    entry.file_size_with_padding)]
                        ELSE [call EXCEPT !.pc = "done", !.entry = entry,
                                  !.result = "UnableToMap"]]
    /\ UNCHANGED <<build, paths, bdt, vfs, cidx, archives, entries, callers, proc>>

\* open() called on its own.
Open(c, name) ==
    /\ reads[c].pc = "idle"
    /\ OpenBegin(c, name)
    /\ UNCHANGED <<readvars, extractvars>>

\* The collection of encrypted_blocks and the `?` on it.
OpenCheck(c) ==
    /\ proc = "running"
    /\ calls[c].pc = "mapped"
    /\ LET entry == calls[c].entry
           checked == EncryptedBlocks(entry.aes_ranges, calls[c].mmap.len,
                                      build = "debug")
       IN  calls' = [calls EXCEPT ![c] =
                CASE checked.kind = "ok" ->
                        [@ EXCEPT !.pc = "decrypt", !.tasks = checked.blocks]
                  [] checked.kind = "corrupt" ->
                        [@ EXCEPT !.pc = "done", !.result = "CorruptEntry",
                                  !.mmap.state = "unmapped"]
                  [] OTHER ->
                        [@ EXCEPT !.pc = "done", !.result = "panic",
                                  !.mmap.state = "unmapped"]]
    /\ UNCHANGED <<build, paths, bdt, vfs, cidx, archives, entries, callers, proc, readvars, extractvars>>

\* One block of one task of the par_bridge().for_each.  A block that lies past
\* the end of the mapping is written through the raw pointer all the same:
\* the write faults (the process dies) or lands in whatever memory follows.
DecryptBlock(c, t) ==
    /\ proc = "running"
    /\ calls[c].pc = "decrypt"
    /\ t \in DOMAIN calls[c].tasks
    /\ calls[c].tasks[t].next < calls[c].tasks[t].num_blocks
    /\ LET call == calls[c]
           task == call.tasks[t]
           at == task.start + task.next * BlockSize
           key == call.entry.aes_key
       IN  IF at + BlockSize <= call.mmap.len
           THEN LET newdata == DecryptBlockAt(call.mmap.data, key, at)
                IN  /\ calls' = [calls EXCEPT ![c] =
                            [call EXCEPT !.mmap.data = newdata,
                                         !.tasks[t].next = task.next + 1,
                                         !.decrypted = call.decrypted + 1]]
                    /\ bdt' = FileAfterWrite(call.mmap, newdata)
                    /\ proc' = proc
           ELSE \E landed \in BOOLEAN :
                    /\ calls' = [calls EXCEPT ![c] =
                            [call EXCEPT !.oob = landed \/ call.oob,
                                         !.tasks[t].next = task.next + 1]]
                    /\ proc' = IF landed /\ ~call.oob THEN proc ELSE "aborted"
                    /\ bdt' = bdt
    /\ UNCHANGED <<build, paths, vfs, cidx, archives, entries, callers, readvars, extractvars>>

\* Mutant of OpenFinish: the reader is made while range tasks still run.
OpenFinishEarly(c) ==
    /\ proc = "running"
    /\ calls[c].pc = "decrypt"
    /\ \E frozen \in BOOLEAN :
        LET call == calls[c]
            effective_file_size == EffectiveFileSize(call.entry)
        IN  calls' = [calls EXCEPT ![c] =
                IF frozen
                THEN [call EXCEPT !.pc = "done", !.result = "Ok",
                          !.mmap.state = "readonly",
                          !.reader = DvdBndEntryReader(
                                [call.mmap EXCEPT !.state = "readonly"],
                                effective_file_size)]
                ELSE [call EXCEPT !.pc = "done", !.result = "UnableToMap",
                          !.mmap.state = "unmapped"]]
    /\ UNCHANGED <<build, paths, bdt, vfs, cidx, archives, entries, callers, proc, readvars, extractvars>>

\* After the for_each: the effective size, make_read_only and the reader.
OpenFinish(c) ==
    /\ proc = "running"
    /\ calls[c].pc = "decrypt"
    /\ \A t \in DOMAIN calls[c].tasks :
            calls[c].tasks[t].next = calls[c].tasks[t].num_blocks
    /\ \E frozen \in BOOLEAN :
        LET call == calls[c]
            effective_file_size == EffectiveFileSize(call.entry)
        IN  calls' = [calls EXCEPT ![c] =
                IF frozen
                THEN [call EXCEPT !.pc = "done", !.result = "Ok",
                          !.mmap.state = "readonly",
                          !.reader = DvdBndEntryReader(
                                [call.mmap EXCEPT !.state = "readonly"],
                                effective_file_size)]
                ELSE [call EXCEPT !.pc = "done", !.result = "UnableToMap",
                          !.mmap.state = "unmapped"]]
    /\ UNCHANGED <<build, paths, bdt, vfs, cidx, archives, entries, callers, proc, readvars, extractvars>>

\* ------------------------------------------------ DvdBnd::read_file, pure parts

\* What a buffer holds: opaque bytes named by `id`, or a BND4 container with
\* its members in stored order, each [path, data].
Leaf(id) == [kind |-> "leaf", id |-> id, files |-> <<>>]
Bnd(files) == [kind |-> "bnd", id |-> "", files |-> files]
Member(path, data) == [path |-> path, data |-> data]

\* What an archive entry holds once decrypted: a DCX envelope with its
\* compression descriptor around a buffer, or bytes that are no DCX.
Dcx(descriptor, body) == [dcx |-> TRUE, descriptor |-> descriptor, body |-> body]
NotDcx == [dcx |-> FALSE, descriptor |-> "", body |-> Leaf("raw")]

\* DcxHeader::read(reader) and read_to_end: the header with its
\* compression_parameters and the decompressed bytes, or an error.
DcxHeaderRead(reader) ==
    LET held == content[reader.mmap.arch][reader.mmap.offset]
    IN  IF held.dcx
        THEN [ok |-> TRUE, compression_parameters |-> held.descriptor,
              data |-> held.body]
        ELSE [ok |-> FALSE, compression_parameters |-> "", data |-> Leaf("")]

\* std::path: is the token a separator on the platform?
IsSeparator(token) == token = "/" \/ (platform = "windows" /\ token = "\\")

\* The path without its trailing separators and "." components.
RECURSIVE TrimTail(_)
TrimTail(path) ==
    IF path = <<>> THEN path
    ELSE LET n == Len(path)
         IN  IF IsSeparator(path[n]) /\ n > 1
             THEN TrimTail(SubSeq(path, 1, n - 1))
             ELSE IF path[n] = "." /\ n > 1 /\ IsSeparator(path[n - 1])
             THEN TrimTail(SubSeq(path, 1, n - 1))
             ELSE path

\* The tokens after the last separator.
RECURSIVE LastComponent(_)
LastComponent(path) ==
    IF path = <<>> THEN <<>>
    ELSE IF IsSeparator(path[Len(path)]) THEN <<>>
    ELSE LastComponent(SubSeq(path, 1, Len(path) - 1)) \o <<path[Len(path)]>>

\* Path::new(path).file_name(): Some(name) as <<name>>, None as <<>>.  None
\* for the empty path, the root, "." and a path that ends in "..".
file_name(path) ==
    LET last == LastComponent(TrimTail(path))
    IN  IF last = <<>> \/ last = <<"..">> \/ last = <<".">> THEN <<>> ELSE <<last>>

\* bnd.files.iter().find(..): the members are tried in stored order; the
\* unwrap() of file_name() panics on the first member tried that has none.
\* The index of the member found, 0 for none, -1 for the panic.
RECURSIVE FindMember(_, _, _)
FindMember(files, nested_name, k) ==
    IF k > Len(files) THEN 0
    ELSE IF file_name(files[k].path) = <<>> THEN 0 - 1
    ELSE IF file_name(files[k].path)[1] = nested_name THEN k
    ELSE FindMember(files, nested_name, k + 1)

ReadOk(cmp, data) == [kind |-> "Ok", err |-> "", cmp |-> cmp, data |-> data]
ReadErr(err) == [kind |-> "Err", err |-> err, cmp |-> "", data |-> Leaf("")]
ReadPanic == [kind |-> "panic", err |-> "", cmp |-> "", data |-> Leaf("")]
NoResult == [kind |-> "none", err |-> "", cmp |-> "", data |-> Leaf("")]

\* read_nested_bnd(nested_name, parent_data)
read_nested_bnd(nested_name, parent_data) ==
    IF parent_data.kind # "bnd" THEN ReadErr("bnd4")
    ELSE LET found == FindMember(parent_data.files, nested_name, 1)
         IN  IF found < 0 THEN ReadPanic
             ELSE IF found = 0 THEN ReadErr("member_not_found")
             ELSE ReadOk("", parent_data.files[found].data)

\* A read_file call: `rest` are the names still to be looked up in `data`.
IdleRead ==
    [pc |-> "idle", chain |-> <<>>, name |-> <<>>, rest |-> <<>>,
     data |-> Leaf(""), hops |-> 0, result |-> NoResult]

\* ---------------------------------------------------- DvdBnd::read_file, steps

\* read_file is entered and calls open() on the first name of the chain, or
\* on the name itself when the chain is empty.
ReadFileBegin(c, nested_bnd_names, name) ==
    /\ reads[c].pc = "idle"
    /\ OpenBegin(c, IF Len(nested_bnd_names) > 0 THEN nested_bnd_names[1] ELSE name)
    /\ reads' = [reads EXCEPT ![c] =
            [@ EXCEPT !.pc = "opening", !.chain = nested_bnd_names, !.name = name]]
    /\ UNCHANGED <<platform, content, extractvars>>

\* Mutant of ReadFileDcx: the decompressed bytes are always taken as a
\* container to look the name up in, with an empty chain too.
ReadFileDcxParsing(c) ==
    /\ proc = "running"
    /\ reads[c].pc = "opening"
    /\ calls[c].pc = "done"
    /\ LET read == reads[c]
           header == DcxHeaderRead(calls[c].reader)
       IN  reads' = [reads EXCEPT ![c] =
            IF calls[c].result = "panic"
            THEN [read EXCEPT !.pc = "done", !.result = ReadPanic]
            ELSE IF calls[c].result # "Ok"
            THEN [read EXCEPT !.pc = "done", !.result = ReadErr(calls[c].result)]
            ELSE IF ~header.ok
            THEN [read EXCEPT !.pc = "done", !.result = ReadErr("dcx")]
            ELSE [read EXCEPT !.pc = "nested", !.data = header.data,
                              !.rest = (IF Len(read.chain) > 0 THEN Tail(read.chain)
                                        ELSE <<>>) \o <<read.name>>]]
    /\ UNCHANGED <<build, paths, bdt, vfs, cidx, archives, entries, callers, calls,
                   proc, platform, content, extractvars>>

\* open() has returned: its error is returned by `?`; otherwise the envelope is
\* read and decompressed.  With an empty chain that is the result, with the
\* header's compression parameters; otherwise the nested lookups follow.
ReadFileDcx(c) ==
    /\ proc = "running"
    /\ reads[c].pc = "opening"
    /\ calls[c].pc = "done"
    /\ LET read == reads[c]
           header == DcxHeaderRead(calls[c].reader)
       IN  reads' = [reads EXCEPT ![c] =
            IF calls[c].result = "panic"
            THEN [read EXCEPT !.pc = "done", !.result = ReadPanic]
            ELSE IF calls[c].result # "Ok"
            THEN [read EXCEPT !.pc = "done", !.result = ReadErr(calls[c].result)]
            ELSE IF ~header.ok
            THEN [read EXCEPT !.pc = "done", !.result = ReadErr("dcx")]
            ELSE IF Len(read.chain) > 0
            THEN [read EXCEPT !.pc = "nested", !.data = header.data,
                              !.rest = Tail(read.chain) \o <<read.name>>]
            ELSE [read EXCEPT !.pc = "done", !.data = header.data,
                              !.result = ReadOk(header.compression_parameters,
                                                header.data)]]
    /\ UNCHANGED <<build, paths, bdt, vfs, cidx, archives, entries, callers, calls,
                   proc, platform, content, extractvars>>

\* One read_nested_bnd: of the loop over nested_bnd_names[1..], or the last
\* one, for `name`, after which Ok((cmp_string, data)) is returned with
\* cmp_string = "None".
ReadFileNested(c) ==
    /\ proc = "running"
    /\ reads[c].pc = "nested"
    /\ LET read == reads[c]
           result == read_nested_bnd(Head(read.rest), read.data)
       IN  reads' = [reads EXCEPT ![c] =
            IF result.kind # "Ok"
            THEN [read EXCEPT !.pc = "done", !.result = result]
            ELSE IF Len(read.rest) > 1
            THEN [read EXCEPT !.data = result.data, !.rest = Tail(read.rest),
                              !.hops = read.hops + 1]
            ELSE [read EXCEPT !.pc = "done", !.data = result.data,
                              !.rest = <<>>, !.hops = read.hops + 1,
                              !.result = ReadOk("None", result.data)]]
    /\ UNCHANGED <<build, paths, bdt, vfs, cidx, archives, entries, callers, calls,
                   proc, platform, content, extractvars>>

\* ------------------------------------------------- the describe operations

\* The describe operations of the command line.  Four read the file with
\* read_file and parse it; describe_entryfilelist opens the entry itself.
ReadingOps == {"bnd", "flver", "matbin", "msb"}
DescribeOps == ReadingOps \cup {"entryfilelist"}

\* A describe call: its operation and arguments, whether a parser was run on
\* the bytes, and how it ended ("Ok", "Err" with the error, "panic").
IdleDescribe ==
    [pc |-> "idle", op |-> "", chain |-> <<>>, name |-> <<>>, parsed |-> FALSE,
     result |-> [kind |-> "none", err |-> ""]]

\* describe_<op>(dvd_bnd, name, nested_bnd_names) is entered.
DescribeBegin(c, op, nested_bnd_names, name) ==
    /\ proc = "running"
    /\ vfs = "ok"
    /\ c \in callers
    /\ describes[c].pc = "idle"
    /\ reads[c].pc = "idle"
    /\ calls[c].pc = "idle"
    /\ describes' = [describes EXCEPT ![c] =
            [@ EXCEPT !.pc = "called", !.op = op, !.name = name,
                      !.chain = IF op \in ReadingOps THEN nested_bnd_names ELSE <<>>]]
    /\ UNCHANGED <<build, paths, bdt, vfs, cidx, archives, entries, callers, calls,
                   proc, readvars, dict, cwd, ext, cands, folds, disk, dirs, dictfile, msb>>

\* dvd_bnd.read_file(nested_bnd_names, name) of describe_bnd, describe_flver,
\* describe_matbin and describe_msb.
DescribeReadFile(c) ==
    /\ describes[c].pc = "called"
    /\ describes[c].op \in ReadingOps
    /\ ReadFileBegin(c, describes[c].chain, describes[c].name)

\* dvd_bnd.open(name) of describe_entryfilelist.
DescribeOpen(c) ==
    /\ describes[c].pc = "called"
    /\ describes[c].op = "entryfilelist"
    /\ Open(c, describes[c].name)

\* The rest of a describe operation on what read_file returned: its error is
\* returned by `?`; the bytes are parsed, and a parser's failure is returned
\* (bnd, flver) or unwrapped (matbin, msb).
DescribeParsed(op, read, parse_ok) ==
    IF read.kind = "panic" THEN [parsed |-> FALSE, result |-> [kind |-> "panic", err |-> ""]]
    ELSE IF read.kind = "Err" THEN [parsed |-> FALSE, result |-> [kind |-> "Err", err |-> read.err]]
    ELSE IF parse_ok THEN [parsed |-> TRUE, result |-> [kind |-> "Ok", err |-> ""]]
    ELSE IF op \in {"bnd", "flver"}
    THEN [parsed |-> TRUE, result |-> [kind |-> "Err", err |-> "parse"]]
    ELSE [parsed |-> TRUE, result |-> [kind |-> "panic", err |-> ""]]

\* The rest of describe_entryfilelist on what open() returned: an error is
\* taken by expect("Could not open dvdbnd entry"); the bytes are parsed and a
\* parser's failure is returned.
DescribeExpected(open_result, parse_ok) ==
    IF open_result # "Ok" THEN [parsed |-> FALSE, result |-> [kind |-> "panic", err |-> ""]]
    ELSE IF parse_ok THEN [parsed |-> TRUE, result |-> [kind |-> "Ok", err |-> ""]]
    ELSE [parsed |-> TRUE, result |-> [kind |-> "Err", err |-> "parse"]]

\* The describe operation ends once its read_file or open has returned.
DescribeEnd(c) ==
    /\ proc = "running"
    /\ describes[c].pc = "called"
    /\ IF describes[c].op \in ReadingOps
       THEN reads[c].pc = "done"
       ELSE calls[c].pc = "done"
    /\ \E parse_ok \in BOOLEAN :
        LET end == IF describes[c].op \in ReadingOps
                   THEN DescribeParsed(describes[c].op, reads[c].result, parse_ok)
                   ELSE DescribeExpected(calls[c].result, parse_ok)
        IN  describes' = [describes EXCEPT ![c] =
                [@ EXCEPT !.pc = "done", !.parsed = end.parsed, !.result = end.result]]
    /\ UNCHANGED <<build, paths, bdt, vfs, cidx, archives, entries, callers, calls,
                   proc, readvars, dict, cwd, ext, cands, folds, disk, dirs, dictfile, msb>>

\* ------------------------------------------------------ MSB records, decoding

\* impl From<i32> for EventType / PartType / PointType: the variants by their
\* discriminant; every other integer is Unknown.
elden_ring_EventType ==
    ((0 - 1) :> "Other") @@ (4 :> "Treasure") @@ (5 :> "Generator") @@
    (7 :> "ObjAct") @@ (10 :> "Navmesh") @@ (12 :> "PseudoMultiplayer") @@
    (15 :> "PlatoonInfo") @@ (20 :> "PatrolInfo") @@ (21 :> "Mount") @@
    (23 :> "SignPool") @@ (24 :> "RetryPoint")
nightreign_EventType ==
    ((0 - 1) :> "Other") @@ (4 :> "Treasure") @@ (5 :> "Generator") @@
    (7 :> "ObjAct") @@ (15 :> "PlatoonInfo") @@ (20 :> "PatrolInfo") @@
    (21 :> "Mount") @@ (25 :> "BirdTravelInfo") @@ (26 :> "TalkInfo") @@
    (27 :> "GroupBattleInfo")
elden_ring_PartType ==
    (0 :> "MapPiece") @@ (2 :> "Enemy") @@ (4 :> "Player") @@
    (5 :> "Collision") @@ (9 :> "DummyAsset") @@ (10 :> "DummyEnemy") @@
    (11 :> "ConnectCollision") @@ (13 :> "Asset")
nightreign_PointType ==
    ((0 - 1) :> "Other") @@ (2 :> "EnvironmentMapPoint") @@
    (3 :> "RespawnPoint") @@ (4 :> "Sound") @@ (5 :> "Sfx") @@
    (6 :> "WindSfx") @@ (8 :> "SpawnPoint") @@
    (17 :> "EnvironmentMapEffectBox") @@ (21 :> "Connection") @@
    (28 :> "MufflingBox") @@ (29 :> "MufflingPortal") @@
    (30 :> "SoundRegion") @@ (32 :> "PatrolRoute") @@ (33 :> "MapPoint") @@
    (35 :> "WeatherOverride") @@ (37 :> "GroupDefeatReward") @@
    (40 :> "Hitset") @@ (42 :> "WeatherCreateAssetPoint") @@
    (44 :> "EnvironmentMapOutput") @@ (46 :> "MountJump") @@ (48 :> "Dummy") @@
    (49 :> "FallPreventionRemoval") @@ (54 :> "MapAttachPoint") @@
    (55 :> "BirdTravelRoute") @@ (56 :> "ClearPersonInfoPoint") @@
    (57 :> "SuddenDeathArea") @@ (58 :> "UserEdgeEliminationInterior") @@
    (59 :> "UserEdgeEliminationExterior")

\* The layouts whose decoders are at hand: [param, version].
Layouts ==
    { <<"event", "EldenRing">>, <<"event", "Nightreign">>,
      <<"part", "EldenRing">>, <<"point", "Nightreign">> }

TypeTable(layout) ==
    CASE layout = <<"event", "EldenRing">> -> elden_ring_EventType
      [] layout = <<"event", "Nightreign">> -> nightreign_EventType
      [] layout = <<"part", "EldenRing">> -> elden_ring_PartType
      [] layout = <<"point", "Nightreign">> -> nightreign_PointType

\* EventType::from(v), PartType::from(v), PointType::from(v)
TypeFrom(layout, v) ==
    IF v \in DOMAIN TypeTable(layout) THEN TypeTable(layout)[v] ELSE "Unknown"

\* The variants whose data is not read from the slice (Other, MapPiece) or
\* whose reading cannot fail (PartDataAsset::from_slice).
Dataless(layout) ==
    IF layout[1] = "part" THEN {"MapPiece", "Asset"} ELSE {"Other"}

\* The error of the `_` arm of from_type_and_slice.
UnknownDataType(layout) ==
    CASE layout[1] = "event" -> "UnknownEventDataType"
      [] layout[1] = "part" -> "UnknownPartDataType"
      [] layout[1] = "point" -> "UnknownPointDataType"

MsbOk(type, data) == [kind |-> "Ok", type |-> type, data |-> data, err |-> ""]
MsbErr(err) == [kind |-> "Err", type |-> "", data |-> "", err |-> err]
MsbPanic == [kind |-> "panic", type |-> "", data |-> "", err |-> ""]
MsbNone == [kind |-> "none", type |-> "", data |-> "", err |-> ""]

\* EventData / PartData / PointData ::from_type_and_slice(type_id, data): the
\* data of the variant, read from the prefix of the slice; the `_` arm, which
\* Unknown falls into, returns the unknown-data-type error.
from_type_and_slice(layout, type_id, prefix_ok) ==
    LET type == TypeFrom(layout, type_id)
    IN  IF type = "Unknown" THEN MsbErr(UnknownDataType(layout))
        ELSE IF type \in Dataless(layout) \/ prefix_ok THEN MsbOk(type, type)
        ELSE MsbErr("UnalignedValue")

\* read_entry(data, version) of EVENT_PARAM_ST, PARTS_PARAM_ST and
\* POINT_PARAM_ST: the header and the strings and structures at its offsets
\* ("unaligned": a ref_from_prefix fails; "out_of_range": an offset lies past
\* the data and the slicing panics), then the type and the data by the
\* discriminant, whose error `?` returns.
read_entry(layout, header, type_id, prefix_ok) ==
    IF header = "unaligned" THEN MsbErr("UnalignedValue")
    ELSE IF header = "out_of_range" THEN MsbPanic
    ELSE LET type == TypeFrom(layout, type_id)
             data == from_type_and_slice(layout, type_id, prefix_ok)
         IN  IF data.kind = "Err" THEN data
             ELSE MsbOk(type, data.data)

NoRecord ==
    [pc |-> "none", layout |-> <<>>, header |-> "", type_id |-> 0,
     prefix_ok |-> FALSE, result |-> MsbNone]

\* One record is decoded.
MsbReadEntry ==
    /\ msb.pc = "given"
    /\ msb' = [msb EXCEPT !.pc = "read",
                          !.result = read_entry(msb.layout, msb.header, msb.type_id,
                                                msb.prefix_ok)]
    /\ UNCHANGED <<build, paths, bdt, vfs, cidx, archives, entries, callers, calls,
                   proc, readvars, dict, cwd, ext, cands, folds, disk, dirs, dictfile,
                   describes>>

\* ------------------------------------------------------- DvdBnd::dictionary

\* A text is a sequence of characters; "\n" and "\r" are the line feed and
\* the carriage return.
\* The line without the "\r" before its "\n".
StripCr(line) ==
    IF line # <<>> /\ line[Len(line)] = "\r" THEN SubSeq(line, 1, Len(line) - 1)
    ELSE line

\* str::lines(): the text is cut after every "\n"; a piece loses its "\n" and
\* a "\r" right before it; what follows the last "\n" is a line when it is
\* not empty, and keeps a "\r" at its end.
RECURSIVE Lines(_, _)
Lines(text, line) ==
    IF text = <<>> THEN (IF line = <<>> THEN <<>> ELSE <<line>>)
    ELSE IF Head(text) = "\n" THEN <<StripCr(line)>> \o Lines(Tail(text), <<>>)
    ELSE Lines(Tail(text), Append(line, Head(text)))

\* Mutant of dictionary: only the empty lines are dropped.
dictionary_with_comments(data_file_contents) ==
    SelectSeq(Lines(data_file_contents, <<>>), LAMBDA l : l # <<>>)

\* DvdBnd::dictionary: the lines that are not empty and do not start with
\* '#', each as a PathBuf, in the order of the text.
dictionary(data_file_contents) ==
    SelectSeq(Lines(data_file_contents, <<>>),
              LAMBDA l : l # <<>> /\ l[1] # "#")

NoText == [contents |-> <<>>, read |-> FALSE]

\* dictionary is called on the text.
DictionaryRead ==
    /\ ~dictfile.read
    /\ dict' = dictionary(dictfile.contents)
    /\ dictfile' = [dictfile EXCEPT !.read = TRUE]
    /\ UNCHANGED <<build, paths, bdt, vfs, cidx, archives, entries, callers, calls,
                   proc, readvars, cwd, ext, cands, folds, disk, dirs, describes, msb>>

\* --------------------------------------------------------- extract, pure parts

\* str::contains on a line: the filter occurs in it.
Contains(line, filter) ==
    \E i \in 1 .. (Len(line) - Len(filter) + 1) :
        SubSeq(line, i, i + Len(filter) - 1) = filter

\* The lines kept by the filter: all of them for None (<<>>), those that
\* contain it for Some(filter) (<<filter>>).
FilterLines(lines, filter) ==
    SelectSeq(lines, LAMBDA line : filter = <<>> \/ Contains(line, filter[1]))

\* The tokens whose characters end in "bnd".
EndsInBnd(token) == token \in {"bnd", "chrbnd"}

\* path.to_string_lossy().ends_with("bnd.dcx")
EndsWithBndDcx(path) ==
    /\ Len(path) >= 3
    /\ path[Len(path)] = "dcx"
    /\ path[Len(path) - 1] = "."
    /\ EndsInBnd(path[Len(path) - 2])

\* path.strip_prefix("/"): Ok(rest) as <<rest>>, Err as <<>>.
StripPrefix(path) ==
    IF path # <<>> /\ path[1] = "/" THEN <<Tail(path)>> ELSE <<>>

\* path.with_extension(""): the file name loses what follows its last dot; a
\* path without a file name, or whose file name has no dot after its first
\* character, is left as it is.
WithExtensionEmpty(path) ==
    LET trimmed == TrimTail(path)
        name == LastComponent(trimmed)
        dots == { k \in 2 .. Len(name) : name[k] = "." }
        last_dot == CHOOSE k \in dots : \A j \in dots : j <= k
    IN  IF file_name(path) = <<>> \/ dots = {} THEN path
        ELSE SubSeq(trimmed, 1, Len(trimmed) - Len(name) + last_dot - 1)

\* path.parent(): Some(parent) as <<parent>>, None as <<>>.  None for the empty
\* path and for a root.
Parent(path) ==
    LET trimmed == TrimTail(path)
        name == LastComponent(trimmed)
    IN  IF path = <<>> \/ name = <<>> THEN <<>>
        ELSE <<TrimTail(SubSeq(trimmed, 1, Len(trimmed) - Len(name)))>>

\* base.join(path): an absolute path replaces the base.
Join(base, path) ==
    IF path = <<>> THEN base
    ELSE IF IsSeparator(path[1]) \/ base = <<>> THEN path
    ELSE base \o <<"/">> \o path

\* &file.path[last_sep..]: what follows the last backslash of the member path.
RECURSIVE AfterLastBackslash(_)
AfterLastBackslash(path) ==
    IF path = <<>> THEN <<>>
    ELSE IF path[Len(path)] = "\\" THEN <<>>
    ELSE AfterLastBackslash(SubSeq(path, 1, Len(path) - 1)) \o <<path[Len(path)]>>

\* The directory and the directories above it, up to <output>/<game> (<<>>).
Ancestors(dir) ==
    {<<>>} \cup { TrimTail(SubSeq(dir, 1, k)) :
                    k \in { j \in 1 .. Len(dir) :
                                j = Len(dir) \/ IsSeparator(dir[j + 1]) } }

\* fs::create_dir_all(dir) can succeed: nothing on the way is a file.
CanCreateDirAll(dir, files) == \A d \in Ancestors(dir) : d \notin DOMAIN files

\* fs::write(path, ..) can succeed: the path's directory exists and the path
\* is not itself a directory.
CanWrite(path, directories) ==
    /\ Parent(path) # <<>>
    /\ Parent(path)[1] \in directories
    /\ path \notin directories

\* The file `path` written with `bytes`.
FsWrite(files, path, bytes) ==
    [p \in (DOMAIN files) \cup {path} |-> IF p = path THEN bytes ELSE files[p]]

\* A decompressed buffer of `len` bytes that BND4::from_reader parses: the
\* members in stored order, each [path, data_offset, compressed_size].
Bnd4File(path, data_offset, compressed_size) ==
    [path |-> path, data_offset |-> data_offset, compressed_size |-> compressed_size]
Bnd4(len, files) ==
    [kind |-> "bnd", id |-> "", files |-> files, len |-> len, file_count |-> Len(files)]

\* The bytes read_to_end takes from the reader of an entry: the reader's
\* bytes as open() left them, not decompressed.
RawBytes(reader) ==
    [kind |-> "raw", arch |-> reader.mmap.arch, offset |-> reader.mmap.offset,
     size |-> reader.size]

\* &buffer[offset..offset + size] of the decompressed buffer of an entry.
Slice(reader, offset, size) ==
    [kind |-> "slice", arch |-> reader.mmap.arch, offset |-> reader.mmap.offset,
     from |-> offset, size |-> size]

\* The for loop over bnd4.files, from member k on: every member is sliced out
\* of the buffer (a panic when the slice reaches past it) and written, and the
\* `?` returns the first write error.  `fail_at` is the member whose write the
\* file system refuses (0: none).
RECURSIVE WriteMembers(_, _, _, _, _, _, _)
WriteMembers(buffer, reader, parent_path, directories, acc, k, fail_at) ==
    IF k > Len(buffer.files) THEN [kind |-> "Ok", disk |-> acc.disk, wrote |-> acc.wrote]
    ELSE LET file == buffer.files[k]
             output_path == Join(parent_path, AfterLastBackslash(file.path))
             offset == file.data_offset
             size == file.compressed_size
         IN  IF offset + size > buffer.len
             THEN [kind |-> "panic", disk |-> acc.disk, wrote |-> acc.wrote]
             ELSE IF k = fail_at \/ ~CanWrite(output_path, directories)
             THEN [kind |-> "Err", disk |-> acc.disk, wrote |-> acc.wrote]
             ELSE WriteMembers(buffer, reader, parent_path, directories,
                               [disk |-> FsWrite(acc.disk, output_path,
                                                 Slice(reader, offset, size)),
                                wrote |-> acc.wrote \cup {output_path}],
                               k + 1, fail_at)

NoFiles == [p \in {} |-> <<>>]

\* The result of extract: Ok (with the count it prints), Err, or a panic.
NoCount == [kind |-> "none", count |-> 0, err |-> ""]

IdleExtract ==
    [pc |-> "idle", recursive |-> FALSE, filter |-> <<>>, lines |-> <<>>,
     result |-> NoCount]

\* A candidate: who processes it, what open() returned for it, how the
\* closure ended for it ("NotFound", "Ok", "Err", "panic"), what it added to
\* the total, what it wrote, whether the file system refused none of its
\* calls, and whether the create_dir_all of its parent_path succeeded.
PendingCand ==
    [pc |-> "pending", by |-> 0, open |-> "none", kind |-> "none", err |-> "",
     count |-> 0, archive |-> FALSE, wrote |-> {}, fs_ok |-> TRUE,
     create_ok |-> TRUE]

\* A worker's fold: its running total, the error that broke it, the candidate
\* it is at (0: none).
IdleFold == [total |-> 0, err |-> "", cur |-> 0, panicked |-> FALSE]

\* Mutant of SumTotals: the total of one of the folds is taken for the sum.
OneTotal(f, S) ==
    IF S = {} THEN 0
    ELSE f[CHOOSE y \in S : \A z \in S : y <= z].total

RECURSIVE SumTotals(_, _)
SumTotals(f, S) ==
    IF S = {} THEN 0
    ELSE LET x == CHOOSE y \in S : TRUE
         IN  f[x].total + SumTotals(f, S \ {x})

\* -------------------------------------------------------------- extract, steps

\* extract is entered: the dictionary lines are filtered and collected.
ExtractBegin(recursive, filter) ==
    /\ proc = "running"
    /\ vfs = "ok"
    /\ ext.pc = "idle"
    /\ LET lines == FilterLines(dict, filter)
       IN  /\ ext' = [ext EXCEPT !.pc = "running", !.recursive = recursive,
                                 !.filter = filter, !.lines = lines]
           /\ cands' = [i \in 1 .. Len(lines) |-> PendingCand]
    /\ UNCHANGED <<build, paths, bdt, vfs, cidx, archives, entries, callers, calls,
                   proc, readvars, dict, cwd, folds, disk, dirs, dictfile, describes, msb>>

\* A worker whose fold is not broken takes a candidate and calls open() on it.
ExtractOpen(c, i) ==
    /\ ext.pc = "running"
    /\ i \in DOMAIN cands
    /\ cands[i].pc = "pending"
    /\ folds[c].cur = 0
    /\ folds[c].err = ""
    /\ ~folds[c].panicked
    /\ OpenBegin(c, ext.lines[i])
    /\ cands' = [cands EXCEPT ![i] = [@ EXCEPT !.pc = "open", !.by = c]]
    /\ folds' = [folds EXCEPT ![c] = [@ EXCEPT !.cur = i]]
    /\ UNCHANGED <<readvars, dict, cwd, ext, disk, dirs, dictfile, describes, msb>>

Outcome(kind, err, count, files, directories, wrote, is_archive) ==
    [kind |-> kind, err |-> err, count |-> count, disk |-> files,
     dirs |-> directories, wrote |-> wrote, archive |-> is_archive]

\* The Ok(reader) arm of the closure for one line.  What the file system
\* does is given: create_ok (the create_dir_all of parent_path, whose result
\* is dropped), parent_ok (the create_dir_all of the plain file's directory),
\* write_ok (the plain file's write), fail_at (the member whose write fails).
ClosureOk(reader, line, create_ok, parent_ok, write_ok, fail_at) ==
    LET is_archive == ext.recursive /\ EndsWithBndDcx(line)
        stripped == StripPrefix(line)
        path == stripped[1]
        parent_path == IF is_archive
                       THEN WithExtensionEmpty(WithExtensionEmpty(path))
                       ELSE <<>>
        dirs1 == IF create_ok /\ CanCreateDirAll(parent_path, disk)
                 THEN dirs \cup Ancestors(parent_path)
                 ELSE dirs
    IN  IF stripped = <<>>
        THEN Outcome("panic", "", 0, disk, dirs, {}, is_archive)
        ELSE IF is_archive
        THEN LET header == DcxHeaderRead(reader)
                 buffer == header.data
                 written == WriteMembers(buffer, reader, parent_path, dirs1,
                                         [disk |-> disk, wrote |-> {}], 1, fail_at)
             IN  IF ~header.ok
                 THEN Outcome("Err", "dcx", 0, disk, dirs1, {}, TRUE)
                 ELSE IF buffer.kind # "bnd"
                 THEN Outcome("Err", "bnd4", 0, disk, dirs1, {}, TRUE)
                 ELSE IF written.kind = "Ok"
                 THEN Outcome("Ok", "", buffer.file_count, written.disk, dirs1,
                              written.wrote, TRUE)
                 ELSE Outcome(written.kind,
                              IF written.kind = "Err" THEN "write" ELSE "",
                              0, written.disk, dirs1, written.wrote, TRUE)
        ELSE LET buffer == RawBytes(reader)
                 parent_dir == Parent(path)
                 wanted == parent_dir[1]
                 dirs2 == dirs1 \cup Ancestors(wanted)
                 target == Join(parent_path, path)
             IN  IF parent_dir # <<>> /\ parent_dir[1] \notin cwd
                        /\ parent_ok /\ CanCreateDirAll(wanted, disk)
                 THEN IF write_ok /\ CanWrite(target, dirs2)
                      THEN Outcome("Ok", "", 1, FsWrite(disk, target, buffer), dirs2,
                                   {target}, FALSE)
                      ELSE Outcome("Err", "write", 0, disk, dirs2, {}, FALSE)
                 ELSE Outcome("Ok", "", 1, disk, dirs1, {}, FALSE)

\* What the file system may do to the calls of one candidate: for a plain
\* file the creation of its directories and its write succeed or fail, for a
\* container the creation of its directory and the write of one member.
FileSystems(opened, is_archive) ==
    IF ~opened
    THEN { [create_ok |-> TRUE, parent_ok |-> TRUE, write_ok |-> TRUE, fail_at |-> 0] }
    ELSE IF is_archive
    THEN { [create_ok |-> ok, parent_ok |-> TRUE, write_ok |-> TRUE, fail_at |-> k] :
                ok \in BOOLEAN, k \in 0 .. MaxMembers }
    ELSE { [create_ok |-> ok, parent_ok |-> ok, write_ok |-> w, fail_at |-> 0] :
                ok \in BOOLEAN, w \in BOOLEAN }

\* The closure of the try_fold for the candidate the worker is at, once its
\* open() has returned: NotFound leaves the total as it is, another error
\* breaks the fold, Ok(reader) is extracted and counted.
ExtractCandidate(c) ==
    /\ proc = "running"
    /\ ext.pc = "running"
    /\ folds[c].cur # 0
    /\ calls[c].pc = "done"
    /\ \E fs \in FileSystems(calls[c].result = "Ok",
                               ext.recursive /\ EndsWithBndDcx(ext.lines[folds[c].cur])) :
        LET i == folds[c].cur
            line == ext.lines[i]
            out == CASE calls[c].result = "NotFound" ->
                            Outcome("NotFound", "", 0, disk, dirs, {}, FALSE)
                     [] calls[c].result = "panic" ->
                            Outcome("panic", "", 0, disk, dirs, {}, FALSE)
                     [] calls[c].result = "Ok" ->
                            ClosureOk(calls[c].reader, line, fs.create_ok,
                                      fs.parent_ok, fs.write_ok, fs.fail_at)
                     [] OTHER ->
                            Outcome("Err", calls[c].result, 0, disk, dirs, {}, FALSE)
        IN  /\ cands' = [cands EXCEPT ![i] =
                    [@ EXCEPT !.pc = "done", !.open = calls[c].result,
                              !.kind = out.kind, !.err = out.err,
                              !.count = out.count, !.wrote = out.wrote,
                              !.archive = out.archive,
                              !.fs_ok = fs.create_ok /\ fs.parent_ok /\ fs.write_ok
                                            /\ fs.fail_at = 0,
                              !.create_ok = fs.create_ok]]
            /\ folds' = [folds EXCEPT ![c] =
                    [total |-> @.total + out.count,
                     err |-> out.err,
                     cur |-> 0,
                     panicked |-> out.kind = "panic"]]
            /\ disk' = out.disk
            /\ dirs' = out.dirs
    /\ calls' = [calls EXCEPT ![c] = IdleCall]
    /\ UNCHANGED <<build, paths, bdt, vfs, cidx, archives, entries, callers, proc,
                   readvars, dict, cwd, ext, dictfile, describes, msb>>

\* try_reduce and the match on its result, once no worker is at a candidate
\* and either no candidate is left or a fold is broken: a panic of a worker
\* is resumed in the caller; an error of a broken fold is returned; otherwise
\* the totals are summed, printed and Ok(()) is returned.
ExtractReduce ==
    /\ proc = "running"
    /\ ext.pc = "running"
    /\ \A c \in Calls : folds[c].cur = 0
    /\ \/ \A i \in DOMAIN cands : cands[i].pc = "done"
       \/ \E c \in Calls : folds[c].err # "" \/ folds[c].panicked
    /\ \E result \in
            IF \E c \in Calls : folds[c].panicked
            THEN { [kind |-> "panic", count |-> 0, err |-> ""] }
            ELSE IF \E c \in Calls : folds[c].err # ""
            THEN { [kind |-> "Err", count |-> 0, err |-> folds[c].err] :
                        c \in { d \in Calls : folds[d].err # "" } }
            ELSE { [kind |-> "Ok", count |-> SumTotals(folds, Calls), err |-> ""] } :
        ext' = [ext EXCEPT !.pc = "done", !.result = result]
    /\ UNCHANGED <<build, paths, bdt, vfs, cidx, archives, entries, callers, calls,
                   proc, readvars, dict, cwd, cands, folds, disk, dirs, dictfile, describes, msb>>

\* ------------------------------------------------------------- the inputs

\* A table-of-contents record as Bhd::read yields it.
TocEntry(hash, size, padded_size, offset, aes_key, encrypted_ranges) ==
    [hash |-> hash, size |-> size, padded_size |-> padded_size, offset |-> offset,
     aes_key |-> aes_key, encrypted_ranges |-> encrypted_ranges]

Archive(fail, toc) == [fail |-> fail, toc |-> toc]

LoadFailures == {"bhd_open", "bdt_open", "file_stem", "get_key", "bhd_read"}

\* Records whose first 16 bytes are encrypted; the index pads the range list
\* with (-1, -1) and empty ranges.
Plain(hash, size, offset, aes_key) ==
    TocEntry(hash, size, 32, offset, aes_key, <<<<-1, -1>>, <<0, 16>>, <<16, 16>>>>)

PlainTocs ==
    { <<Plain(1, 0, 0, "k1")>>,
      <<Plain(2, 20, 16, "k2")>>,
      <<Plain(1, 0, 0, "k1"), Plain(2, 40, 16, "k2")>>,
      <<Plain(1, 20, 0, "k1"), Plain(1, 0, 16, "k2")>> }

ArchivePool ==
    { Archive("none", toc) : toc \in PlainTocs }
        \cup { Archive(fail, <<Plain(1, 0, 0, "k1")>>) : fail \in LoadFailures }

\* Sequences over S of length at most n.
SeqsUpTo(S, n) == UNION { [1 .. k -> S] : k \in 0 .. n }

\* Declared (start, end) pairs as the index stores them (i64).
RangePool ==
    { <<0, 16>>, <<16, 48>>, <<16, 32>>, <<8, 40>>,
      <<32, 16>>, <<0, 80>>, <<0 - 16, 16>> }

RangeLists == SeqsUpTo(RangePool, MaxRanges)

\* One archive holding one record with the declared ranges.
Ranged(padded_size, encrypted_ranges) ==
    <<Archive("none", <<TocEntry(1, 0, padded_size, 16, "k1", encrypted_ranges)>>)>>

\* Installations: what create is given, and who calls into the result.
CreateWorlds ==
    { [paths |-> ps, callers |-> {1}] :
        ps \in SeqsUpTo(ArchivePool, MaxArchives) \ {<<>>} }

OpenWorlds ==
    { [paths |-> Ranged(padded_size, rs), callers |-> {1}] :
        padded_size \in {32, 48}, rs \in RangeLists }

SharedWorlds ==
    { [paths |-> Ranged(48, rs), callers |-> Calls] :
        rs \in { <<<<0, 16>>, <<16, 48>>>>, <<<<32, 16>>>>, <<<<0, 16>>, <<8, 40>>>> } }

InitWith(worlds) ==
    /\ build \in {"debug", "release"}
    /\ \E w \in worlds :
        /\ paths = w.paths
        /\ callers = w.callers
    /\ bdt = [a \in 1 .. Len(paths) |-> [o \in 0 .. (FileLen - 1) |-> <<>>]]
    /\ vfs = "building"
    /\ cidx = 0
    /\ archives = <<>>
    /\ entries = EmptyMap
    /\ calls = [c \in Calls |-> IdleCall]
    /\ proc = "running"
    /\ reads = [c \in Calls |-> IdleRead]
    /\ ext = IdleExtract
    /\ cands = <<>>
    /\ folds = [c \in Calls |-> IdleFold]
    /\ disk = NoFiles
    /\ dirs = {}

Init ==
    /\ InitWith(CreateWorlds \cup OpenWorlds \cup SharedWorlds)
    /\ dict = <<>>
    /\ cwd = {}
    /\ dictfile = NoText
    /\ describes = [c \in Calls |-> IdleDescribe]
    /\ msb = NoRecord
    /\ platform = "unix"
    /\ content = [a \in DOMAIN paths |-> [o \in {0, 16} |-> NotDcx]]

Next ==
    \/ CreateStep
    \/ CreateReturn
    \/ \E c \in Calls, name \in Names : Open(c, name)
    \/ \E c \in Calls : OpenCheck(c)
    \/ \E c \in Calls, t \in 1 .. MaxRanges : DecryptBlock(c, t)
    \/ \E c \in Calls : OpenFinish(c)

Spec == Init /\ [][Next]_vars

\* ------------------------------------------------- the inputs of read_file

\* The orderings of a set of members.
Orderings(S) ==
    { f \in [1 .. Cardinality(S) -> S] : \A x \in S : \E i \in DOMAIN f : f[i] = x }

\* Members of a nested container, as sets: paths with a "/" directory, with a
\* "\\" directory, two members with one final component, and members whose
\* path has no final component.
MemberSets ==
    { { Member(<<"e", "/", "a">>, Leaf("p1")), Member(<<"b">>, Leaf("p2")) },
      { Member(<<"d", "\\", "a">>, Leaf("p1")), Member(<<"b">>, Leaf("p2")) },
      { Member(<<"e", "/", "a">>, Leaf("p1")), Member(<<"x", "/", "a">>, Leaf("p2")) },
      { Member(<<>>, Leaf("p1")), Member(<<"b">>, Leaf("p2")) },
      { Member(<<"e", "/", "..">>, Leaf("p1")), Member(<<"b">>, Leaf("p2")) } }

Inner == UNION { { Bnd(files) : files \in Orderings(S) } : S \in MemberSets }

Outer ==
    UNION { { Bnd(files) :
                files \in Orderings({ Member(<<"o", "/", "in">>, inner),
                                      Member(<<"c">>, Leaf("p3")) }) } :
            inner \in Inner }

\* One archive with two entries: a compressed container at offset 0 and, at
\* offset 16, a compressed file or bytes that are no DCX.
ReadWorlds ==
    { [paths |-> <<Archive("none", <<Plain(1, 0, 0, "k1"), Plain(2, 0, 16, "k2")>>)>>,
       callers |-> {1}] }

Contents ==
    { [a \in {1} |-> [o \in {0, 16} |-> IF o = 0 THEN first ELSE second]] :
        first \in { Dcx("Deflate", body) : body \in Inner }
                    \cup { Dcx("Kraken", body) : body \in Outer },
        second \in { Dcx("Deflate", Leaf("p3")), NotDcx } }

\* The container chains and the names read_file is called with.
Chains ==
    { <<>>, << <<"/", "f1">> >>, << <<"/", "f1">>, <<"in">> >>, << <<"/", "f2">> >>,
      << <<"zz">> >> }

LeafNames == { <<"/", "f1">>, <<"/", "f2">>, <<"a">>, <<"b">>, <<"in">>, <<"zz">> }

InitRead ==
    /\ InitWith(ReadWorlds)
    /\ dict = <<>>
    /\ cwd = {}
    /\ dictfile = NoText
    /\ describes = [c \in Calls |-> IdleDescribe]
    /\ msb = NoRecord
    /\ platform \in {"windows", "unix"}
    /\ content \in Contents

NextRead ==
    \/ CreateStep
    \/ CreateReturn
    \/ \E c \in Calls, chain \in Chains, name \in LeafNames :
            ReadFileBegin(c, chain, name)
    \/ \E c \in Calls : OpenCheck(c)
    \/ \E c \in Calls, t \in 1 .. MaxRanges : DecryptBlock(c, t)
    \/ \E c \in Calls : OpenFinish(c)
    \/ \E c \in Calls : ReadFileDcx(c)
    \/ \E c \in Calls : ReadFileNested(c)

SpecRead == InitRead /\ [][NextRead]_vars

\* --------------------------------------------------- the inputs of extract

\* Records of one 16-byte block, encrypted or stored as it is.
Small(hash, offset, encrypted_ranges) ==
    TocEntry(hash, 0, 16, offset, "k1", encrypted_ranges)

\* The containers an entry may decompress to: backslash paths, two members
\* with one final component, a member that reaches past the buffer, a
\* member path with a "/" directory.
Containers ==
    { Bnd4(16, << Bnd4File(<<"N:", "\\", "d", "\\", "a">>, 0, 8),
                  Bnd4File(<<"N:", "\\", "d", "\\", "b">>, 8, 8) >>),
      Bnd4(16, << Bnd4File(<<"x", "\\", "a">>, 0, 8),
                  Bnd4File(<<"y", "\\", "a">>, 8, 8) >>),
      Bnd4(16, << Bnd4File(<<"a">>, 0, 8), Bnd4File(<<"b">>, 8, 16) >>),
      Bnd4(16, << Bnd4File(<<"e", "/", "a">>, 0, 16) >>) }

\* What the entries of an installation hold, by offset into the one archive.
Holding(at0, at32) ==
    [a \in {1} |-> [o \in {0, 16, 32, 48} |->
        IF o = 0 THEN at0 ELSE IF o = 32 THEN at32 ELSE NotDcx]]

\* Installations with their dictionary and working directory: plain files,
\* with and without a directory and a name no archive holds; a container;
\* entries whose ranges are out of bounds or reversed; a dictionary line with
\* no leading separator whose hash an archive holds.
ExtractWorlds ==
    { [paths |-> <<Archive("none", <<Small(1, 0, <<<<0, 16>>>>), Small(5, 48, <<>>)>>)>>,
       callers |-> {1},
       dict |-> << <<"/", "f1">>, <<"/", "zz">>, <<"/", "m", "/", "g">> >>,
       cwd |-> working,
       content |-> Holding(at0, NotDcx)] :
         working \in { {}, { <<"m">> } },
         at0 \in { Dcx("Deflate", Leaf("p1")), NotDcx } }
    \cup
    { [paths |-> <<Archive("none", <<Small(4, 32, <<>>), Small(1, 0, <<>>)>>)>>,
       callers |-> Calls,
       dict |-> << <<"/", "m", "/", "c", ".", "chrbnd", ".", "dcx">>, <<"/", "f1">> >>,
       cwd |-> {},
       content |-> Holding(NotDcx, at32)] :
         at32 \in { Dcx("Kraken", body) : body \in Containers }
                    \cup { Dcx("Kraken", Leaf("p2")), NotDcx } }
    \cup
    { [paths |-> <<Archive("none", <<Small(4, 32, <<>>)>>)>>,
       callers |-> {1},
       dict |-> << <<"/", "m", "/", "c", ".", "chrbnd", ".", "dcx">> >>,
       cwd |-> { <<"m">> },
       content |-> Holding(NotDcx, Dcx("Kraken", body))] :
         body \in Containers }
    \cup
    { [paths |-> <<Archive("none", <<Small(2, 16, <<bad>>), Small(1, 0, <<>>),
                                     Small(5, 48, <<<<0, 80>>>>)>>)>>,
       callers |-> {1},
       dict |-> << <<"/", "f2">>, <<"/", "f1">>, <<"/", "m", "/", "g">> >>,
       cwd |-> {},
       content |-> Holding(NotDcx, NotDcx)] :
         bad \in { <<0, 80>>, <<32, 16>> } }
    \cup
    { [paths |-> <<Archive("none", <<Small(6, 0, <<>>)>>)>>,
       callers |-> {1},
       dict |-> << <<"n">> >>,
       cwd |-> {},
       content |-> Holding(NotDcx, NotDcx)] }

\* The filters extract is called with: None, or Some("m").
Filters == { <<>>, << <<"m">> >> }

InitExtract ==
    /\ InitWith({ [paths |-> w.paths, callers |-> w.callers] : w \in ExtractWorlds })
    /\ \E w \in ExtractWorlds :
        /\ paths = w.paths
        /\ callers = w.callers
        /\ dict = w.dict
        /\ cwd = w.cwd
        /\ content = w.content
    /\ platform \in {"windows", "unix"}
    /\ dictfile = NoText
    /\ describes = [c \in Calls |-> IdleDescribe]
    /\ msb = NoRecord

NextExtract ==
    \/ CreateStep
    \/ CreateReturn
    \/ \E recursive \in BOOLEAN, filter \in Filters : ExtractBegin(recursive, filter)
    \/ \E c \in Calls, i \in 1 .. Len(dict) : ExtractOpen(c, i)
    \/ \E c \in Calls : OpenCheck(c)
    \/ \E c \in Calls, t \in 1 .. MaxRanges : DecryptBlock(c, t)
    \/ \E c \in Calls : OpenFinish(c)
    \/ \E c \in Calls : ExtractCandidate(c)
    \/ ExtractReduce

SpecExtract == InitExtract /\ [][NextExtract]_vars

\* ----------------------------------------- the inputs of the describe operations

\* What the two entries hold: a container with a nested container and a
\* file, and a compressed file or bytes that are no DCX.
DescribeContents ==
    { [a \in {1} |-> [o \in {0, 16} |-> IF o = 0 THEN first ELSE second]] :
        first \in { Dcx("Kraken",
                        Bnd(<<Member(<<"o", "/", "in">>,
                                     Bnd(<<Member(<<"a">>, Leaf("p1"))>>)),
                              Member(<<"c">>, Leaf("p3"))>>)) },
        second \in { Dcx("Deflate", Leaf("p3")), NotDcx } }

DescribeChains == { <<>>, << <<"/", "f1">> >>, << <<"/", "f1">>, <<"in">> >>, << <<"zz">> >> }

DescribeNames == { <<"/", "f1">>, <<"/", "f2">>, <<"a">>, <<"zz">> }

InitDescribe ==
    /\ InitWith(ReadWorlds)
    /\ dict = <<>>
    /\ cwd = {}
    /\ dictfile = NoText
    /\ describes = [c \in Calls |-> IdleDescribe]
    /\ msb = NoRecord
    /\ platform = "unix"
    /\ content \in DescribeContents

NextDescribe ==
    \/ CreateStep
    \/ CreateReturn
    \/ \E c \in Calls, op \in DescribeOps, chain \in DescribeChains,
          name \in DescribeNames : DescribeBegin(c, op, chain, name)
    \/ \E c \in Calls : DescribeReadFile(c)
    \/ \E c \in Calls : DescribeOpen(c)
    \/ \E c \in Calls : OpenCheck(c)
    \/ \E c \in Calls, t \in 1 .. MaxRanges : DecryptBlock(c, t)
    \/ \E c \in Calls : OpenFinish(c)
    \/ \E c \in Calls : ReadFileDcx(c)
    \/ \E c \in Calls : ReadFileNested(c)
    \/ \E c \in Calls : DescribeEnd(c)

SpecDescribe == InitDescribe /\ [][NextDescribe]_vars

\* ------------------------------------------------ the inputs of MSB decoding

Discriminants == (0 - 2) .. MaxType

InitMsb ==
    /\ InitWith({ [paths |-> <<Archive("none", <<Plain(1, 0, 0, "k1")>>)>>,
                   callers |-> {1}] })
    /\ platform = "unix"
    /\ content = [a \in DOMAIN paths |-> [o \in {0, 16} |-> NotDcx]]
    /\ cwd = {}
    /\ dict = <<>>
    /\ dictfile = NoText
    /\ describes = [c \in Calls |-> IdleDescribe]
    /\ \E layout \in Layouts, header \in {"ok", "unaligned", "out_of_range"},
          type_id \in Discriminants, prefix_ok \in BOOLEAN :
            msb = [pc |-> "given", layout |-> layout, header |-> header,
                   type_id |-> type_id, prefix_ok |-> prefix_ok, result |-> MsbNone]

NextMsb == MsbReadEntry

SpecMsb == InitMsb /\ [][NextMsb]_vars

\* ------------------------------------------------ the inputs of dictionary

Characters == {"a", "b", "#", " ", "\n", "\r"}

Texts == SeqsUpTo(Characters, MaxText)

InitDictionary ==
    /\ InitWith({ [paths |-> <<Archive("none", <<Plain(1, 0, 0, "k1")>>)>>,
                   callers |-> {1}] })
    /\ platform = "unix"
    /\ content = [a \in DOMAIN paths |-> [o \in {0, 16} |-> NotDcx]]
    /\ cwd = {}
    /\ dict = <<>>
    /\ \E text \in Texts : dictfile = [contents |-> text, read |-> FALSE]
    /\ describes = [c \in Calls |-> IdleDescribe]
    /\ msb = NoRecord

NextDictionary == DictionaryRead

SpecDictionary == InitDictionary /\ [][NextDictionary]_vars

\* ------------------------------------------------- what the claims speak of

Max(S) == CHOOSE x \in S : \A y \in S : y <= x
Min(S) == CHOOSE x \in S : \A y \in S : x <= y

\* The archives, by load position, whose table of contents holds the hash.
Holders(hash) ==
    { i \in DOMAIN paths : \E k \in DOMAIN paths[i].toc : paths[i].toc[k].hash = hash }

\* The record that is inserted last under the hash when every archive loads.
WinningArchive(hash) == Max(Holders(hash))
WinningRecord(hash) ==
    LET toc == paths[WinningArchive(hash)].toc
    IN  toc[Max({ k \in DOMAIN toc : toc[k].hash = hash })]

Failing == { i \in DOMAIN paths : paths[i].fail # "none" }

\* The ranges of a record that are not the (-1, -1) sentinel and not empty.
Declared(record) ==
    { record.encrypted_ranges[k] : k \in
        { j \in DOMAIN record.encrypted_ranges :
            /\ record.encrypted_ranges[j] # <<-1, -1>>
            /\ record.encrypted_ranges[j][1] # record.encrypted_ranges[j][2] } }

\* The starts of the 16-byte blocks of declared ranges that cover mapping
\* offset o.
CoveringBlocks(record, o) ==
    { b \in 0 .. o :
        \E r \in Declared(record) :
            /\ r[1] >= 0
            /\ b >= r[1]
            /\ (b - r[1]) % BlockSize = 0
            /\ b + BlockSize <= r[2]
            /\ o < b + BlockSize }

RECURSIVE SumLen(_, _)
SumLen(data, n) == IF n = 0 THEN 0 ELSE Len(data[n - 1]) + SumLen(data, n - 1)

\* ----------------------------------------------------------------- claims

\* C1: after create, every hash held by one or more archives is stored with
\* the record and the archive index of the archive loaded last among its
\* holders (the last such record of that archive), open() of it maps that
\* archive's data file at that record's offset, and create does not fail
\* unless an archive fails to load.
C1_LastWriteWins ==
    /\ vfs = "ok" =>
        /\ \A hash \in Hashes : Holders(hash) # {} =>
            /\ hash \in DOMAIN entries
            /\ entries[hash].archive + 1 = WinningArchive(hash)
            /\ entries[hash].file_offset = WinningRecord(hash).offset
            /\ entries[hash].file_size = WinningRecord(hash).size
            /\ entries[hash].aes_key = WinningRecord(hash).aes_key
        /\ \A c \in Calls : calls[c].result = "Ok" =>
            /\ calls[c].reader.mmap.arch = WinningArchive(calls[c].hash)
            /\ calls[c].reader.mmap.offset = WinningRecord(calls[c].hash).offset
    /\ vfs = "err" => Failing # {}

\* C1 witness: two archives hold hash 1 and an open() of it has returned the
\* second archive's bytes.
C1_Witness ==
    /\ vfs = "ok"
    /\ Holders(1) = {1, 2}
    /\ \E c \in Calls :
        /\ calls[c].result = "Ok"
        /\ calls[c].hash = 1
        /\ calls[c].reader.mmap.arch = 2

\* C2: create returns Ok only when every archive loaded; when some archive
\* fails, create never gets past the first failing one, returns Err there,
\* keeps neither handles nor entries, and nothing can be opened.
C2_FailFast ==
    /\ vfs = "ok" => Failing = {}
    /\ Failing # {} =>
        /\ vfs # "ok"
        /\ cidx < Min(Failing)
        /\ vfs = "err" =>
            /\ cidx = Min(Failing) - 1
            /\ archives = <<>>
            /\ entries = EmptyMap
        /\ \A c \in Calls : calls[c] = IdleCall

\* C2 witness: the first archive loaded and the second failed.
C2_Witness ==
    /\ vfs = "err"
    /\ cidx = 1
    /\ paths[1].fail = "none"

\* C3: whatever start/end an index record declared, open() fails with
\* CorruptEntry or decrypts only blocks inside [0, file_size_with_padding):
\* no call panics, no block slice reaches past the mapping, no write lands
\* outside it and no fault kills the process.
C3_InBoundsOrCorrupt ==
    /\ proc = "running"
    /\ \A c \in Calls :
        /\ calls[c].result # "panic"
        /\ ~calls[c].oob
        /\ \A t \in DOMAIN calls[c].tasks :
            calls[c].tasks[t].start + calls[c].tasks[t].num_blocks * BlockSize
                <= calls[c].mmap.len

\* C4: when a declared range of the entry starts at or after, or ends
\* beyond, file_size_with_padding, an open() that got its mapping returns
\* CorruptEntry and has decrypted no block.
C4_CorruptBeforeDecrypt ==
    \A c \in Calls :
        ( /\ calls[c].mmap.state # "none"
          /\ calls[c].pc # "mapped"
          /\ \E r \in Declared(WinningRecord(calls[c].hash)) :
                \/ r[1] >= calls[c].mmap.len
                \/ r[2] > calls[c].mmap.len )
        => /\ calls[c].result = "CorruptEntry"
           /\ calls[c].decrypted = 0

\* C5: an open() of a name whose hash is not in the Entry Table is over
\* at once with NotFound: no mapping, no decryption task, no block decrypted,
\* no panic.
C5_UnknownIsNotFound ==
    \A c \in Calls :
        (calls[c].pc # "idle" /\ calls[c].hash \notin DOMAIN entries)
        => /\ calls[c].pc = "done"
           /\ calls[c].result = "NotFound"
           /\ calls[c].mmap = NoMmap
           /\ calls[c].tasks = <<>>
           /\ calls[c].decrypted = 0
           /\ ~calls[c].oob

\* C5 witness: an open() of a hash no loaded archive holds has returned.
C5_Witness ==
    \E c \in Calls :
        /\ calls[c].pc = "done"
        /\ Holders(calls[c].hash) = {}
        /\ calls[c].result = "NotFound"

\* C6: after a successful open(), a byte of the mapping outside every declared
\* range is the archive's byte, and a byte inside a 16-byte block of a
\* declared range was decrypted exactly once, under the entry's key, as part
\* of that block of archive bytes.
C6_DecryptedOnce ==
    \A c \in Calls : calls[c].result = "Ok" =>
        LET record == WinningRecord(calls[c].hash)
            data == calls[c].reader.mmap.data
        IN  \A o \in DOMAIN data :
                IF CoveringBlocks(record, o) = {}
                THEN data[o] = <<>>
                ELSE \E b \in CoveringBlocks(record, o) :
                        data[o] = << <<record.aes_key, b, TRUE>> >>

\* C7: no open() changes a byte of an archive data file; every mapping is a
\* private one of file_size_with_padding bytes at file_offset of the owning
\* archive; decryption writes nowhere else; and what a call sees in its
\* mapping are the archive's bytes and its own decryptions only.
C7_PrivateMapping ==
    /\ \A a \in DOMAIN bdt : \A o \in DOMAIN bdt[a] : bdt[a][o] = <<>>
    /\ \A c \in Calls :
        /\ ~calls[c].oob
        /\ calls[c].mmap.state # "none" =>
            /\ calls[c].mmap.private
            /\ calls[c].mmap.arch = WinningArchive(calls[c].hash)
            /\ calls[c].mmap.offset = WinningRecord(calls[c].hash).offset
            /\ calls[c].mmap.len = WinningRecord(calls[c].hash).padded_size
            /\ SumLen(calls[c].mmap.data, calls[c].mmap.len)
                    = BlockSize * calls[c].decrypted

\* C8: the reader of a successful open() has the record's size when that is
\* not 0 and its padded size when it is 0, over a mapping of the padded size.
C8_EffectiveSize ==
    \A c \in Calls : calls[c].result = "Ok" =>
        LET record == WinningRecord(calls[c].hash)
        IN  /\ calls[c].reader.mmap.len = record.padded_size
            /\ record.size # 0 => calls[c].reader.size = record.size
            /\ record.size = 0 => calls[c].reader.size = record.padded_size

\* C8 witness: a reader shorter than its mapping.
C8_Witness ==
    \E c \in Calls :
        /\ calls[c].result = "Ok"
        /\ WinningRecord(calls[c].hash).size = 20
        /\ calls[c].reader.size = 20
        /\ calls[c].reader.mmap.len = 32

\* The entry a read_file call opens first, and what it holds.
FirstHop(c) == IF Len(reads[c].chain) > 0 THEN reads[c].chain[1] ELSE reads[c].name
FirstHeld(c) ==
    content[WinningArchive(NameFrom(FirstHop(c)))]
           [WinningRecord(NameFrom(FirstHop(c))).offset]

\* The final path component with "/" and "\\" both taken as separators.
RECURSIVE FinalComponent(_)
FinalComponent(path) ==
    IF path = <<>> THEN <<>>
    ELSE IF path[Len(path)] \in {"/", "\\"} THEN <<>>
    ELSE FinalComponent(SubSeq(path, 1, Len(path) - 1)) \o <<path[Len(path)]>>

\* What the nested lookups of `names` in `data` can end in, over every choice
\* of a member whose final component is the name: a buffer, or an error.
RECURSIVE Lookups(_, _)
Lookups(data, names) ==
    IF names = <<>> THEN { [kind |-> "Ok", err |-> "", data |-> data] }
    ELSE IF data.kind # "bnd"
    THEN { [kind |-> "Err", err |-> "bnd4", data |-> Leaf("")] }
    ELSE LET named == { k \in DOMAIN data.files :
                            FinalComponent(data.files[k].path) = Head(names) }
         IN  IF named = {}
             THEN { [kind |-> "Err", err |-> "member_not_found", data |-> Leaf("")] }
             ELSE UNION { Lookups(data.files[k].data, Tail(names)) : k \in named }

\* C9: a read_file that succeeds returns the compression descriptor of the
\* envelope of the entry it opened first, whether the chain is empty or not.
C9_FirstHopDescriptor ==
    \A c \in Calls : reads[c].result.kind = "Ok" =>
        reads[c].result.cmp = FirstHeld(c).descriptor

\* What the nested lookups of a read_file call can end in.
Ends(c) == Lookups(FirstHeld(c).body, Tail(reads[c].chain) \o <<reads[c].name>>)

\* C10: a read_file with a non-empty chain whose first entry opened and
\* decompressed, and whose names lead to a member by final path component,
\* returns that member's bytes, and they are the same for every member
\* order: every choice of a member with the wanted final component leads to
\* the one result.
C10_NestedMemberBytes ==
    \A c \in Calls :
        ( /\ reads[c].pc = "done"
          /\ Len(reads[c].chain) > 0
          /\ calls[c].result = "Ok"
          /\ FirstHeld(c).dcx
          /\ \E e \in Ends(c) : e.kind = "Ok" )
        => /\ Cardinality(Ends(c)) = 1
           /\ [kind |-> reads[c].result.kind, err |-> reads[c].result.err,
               data |-> reads[c].result.data] \in Ends(c)

\* C11: a read_file with an empty chain opens the leaf name itself, never
\* enters a nested-container lookup, and ends as the open() and the
\* decompression of that entry end: with the decompressed bytes the entry
\* holds when both succeed, with no bytes otherwise.
C11_EmptyChainIsOpenPlusDecompress ==
    \A c \in Calls : (reads[c].pc # "idle" /\ reads[c].chain = <<>>) =>
        /\ calls[c].name = reads[c].name
        /\ reads[c].pc # "nested"
        /\ reads[c].hops = 0
        /\ reads[c].rest = <<>>
        /\ reads[c].pc = "done" =>
            IF calls[c].result = "Ok" /\ FirstHeld(c).dcx
            THEN /\ reads[c].result.kind = "Ok"
                 /\ reads[c].result.data = FirstHeld(c).body
            ELSE /\ reads[c].result.kind \in {"Err", "panic"}
                 /\ reads[c].result.data = Leaf("")

\* C11 witness: a read_file with an empty chain has returned an entry that
\* holds a container, as the container's bytes.
C11_Witness ==
    \E c \in Calls :
        /\ reads[c].pc = "done"
        /\ reads[c].chain = <<>>
        /\ reads[c].result.kind = "Ok"
        /\ reads[c].result.data.kind = "bnd"
        /\ reads[c].hops = 0

\* C12: when a hop of a read_file finds no member whose final path component
\* is the requested name, the call ends with the member-not-found error and
\* no bytes; it does not panic, whatever the other members' paths are.
C12_AbsentMemberIsError ==
    \A c \in Calls :
        ( /\ reads[c].pc = "done"
          /\ Len(reads[c].chain) > 0
          /\ calls[c].result = "Ok"
          /\ FirstHeld(c).dcx
          /\ \A e \in Ends(c) : e.err = "member_not_found" )
        => reads[c].result = ReadErr("member_not_found")

\* The candidates of the extract call by what open() returned for them.
Resolvable == { i \in DOMAIN cands : NameFrom(ext.lines[i]) \in DOMAIN entries }
Processed(i) == i \in DOMAIN cands /\ cands[i].pc = "done"

\* Every candidate was processed, every open() of a resolvable one returned
\* a reader, and the file system refused nothing.
HealthyRun ==
    \A i \in DOMAIN cands :
        /\ cands[i].pc = "done"
        /\ cands[i].fs_ok
        /\ cands[i].open = (IF i \in Resolvable THEN "Ok" ELSE "NotFound")

\* C13: a candidate whose name no archive holds ends as NotFound, adds 0 to
\* the total, writes nothing and breaks no fold; and an extraction without
\* unwrapping over N resolvable and M unresolvable candidates, with nothing
\* failing, reports success and has written exactly N files.
C13_MissesAreSkipped ==
    /\ \A i \in DOMAIN cands : (Processed(i) /\ i \notin Resolvable) =>
        /\ cands[i].open = "NotFound"
        /\ cands[i].kind = "NotFound"
        /\ cands[i].count = 0
        /\ cands[i].wrote = {}
        /\ cands[i].err = ""
    /\ (ext.pc = "done" /\ ~ext.recursive /\ HealthyRun) =>
        /\ ext.result.kind = "Ok"
        /\ Cardinality(DOMAIN disk) = Cardinality(Resolvable)

\* C14: once a candidate has ended in an error (an open() error other than
\* NotFound, or a failed decompression, container parse or file write),
\* extract ends by returning the error of such a candidate, never a count;
\* and what the candidates wrote stays on disk.
C14_ErrorIsReturned ==
    /\ (ext.pc = "done" /\ \E i \in DOMAIN cands : cands[i].kind = "Err") =>
        /\ ext.result.kind = "Err"
        /\ \E i \in DOMAIN cands :
            cands[i].kind = "Err" /\ cands[i].err = ext.result.err
    /\ \A i \in DOMAIN cands : cands[i].wrote \subseteq DOMAIN disk

\* C15: the count of a successful extract is the number of files under the
\* output directory, and every candidate has written as many files as it
\* added to the count.
C15_CountIsFilesWritten ==
    ext.result.kind = "Ok" =>
        /\ ext.result.count = Cardinality(DOMAIN disk)
        /\ \A i \in DOMAIN cands :
            /\ Cardinality(cands[i].wrote) = cands[i].count
            /\ cands[i].wrote \subseteq DOMAIN disk

\* What the entry a candidate names holds, and the bytes it stands for:
\* the decompressed bytes of a compressed entry, the entry's own bytes
\* otherwise.
HeldBy(i) ==
    content[WinningArchive(NameFrom(ext.lines[i]))]
           [WinningRecord(NameFrom(ext.lines[i])).offset]
EntryBytes(i) ==
    IF HeldBy(i).dcx THEN HeldBy(i).body
    ELSE [kind |-> "raw", arch |-> WinningArchive(NameFrom(ext.lines[i])),
          offset |-> WinningRecord(NameFrom(ext.lines[i])).offset,
          size |-> WinningRecord(NameFrom(ext.lines[i])).padded_size]

\* C16: after a successful extract, every resolvable candidate that was not
\* unwrapped has its file at the virtual path without the leading separator,
\* in a directory that exists, holding the entry's bytes (decompressed when
\* the entry is compressed), whatever the working directory holds.
C16_PlainFileMirrored ==
    ext.result.kind = "Ok" =>
        \A i \in Resolvable :
            ~(ext.recursive /\ EndsWithBndDcx(ext.lines[i])) =>
                LET path == Tail(ext.lines[i])
                IN  /\ path \in DOMAIN disk
                    /\ disk[path] = EntryBytes(i)
                    /\ Parent(path)[1] \in dirs

\* The path without its two trailing suffixes (".x" and ".dcx").
TwoSuffixesStripped(path) == SubSeq(path, 1, Len(path) - 4)

\* C17: a resolvable candidate named *bnd.dcx that extract has processed
\* with success is, with recursion, unwrapped: every member's slice
\* [data_offset, data_offset + size) of the decompressed buffer is in the
\* file named by the member's final path component in the directory named by
\* the candidate's path without its two suffixes; without recursion it is
\* written as the one plain file of its path.
C17_ContainerUnwrapped ==
    \A i \in DOMAIN cands :
        (cands[i].kind = "Ok" /\ EndsWithBndDcx(ext.lines[i])) =>
            IF ext.recursive
            THEN LET dir == TwoSuffixesStripped(Tail(ext.lines[i]))
                     members == HeldBy(i).body.files
                     slice(k) ==
                        [kind |-> "slice",
                         arch |-> WinningArchive(NameFrom(ext.lines[i])),
                         offset |-> WinningRecord(NameFrom(ext.lines[i])).offset,
                         from |-> members[k].data_offset,
                         size |-> members[k].compressed_size]
                 IN  /\ HeldBy(i).dcx
                     /\ HeldBy(i).body.kind = "bnd"
                     /\ dir \in dirs
                     /\ cands[i].archive
                     /\ \A k \in DOMAIN members :
                            LET target == dir \o <<"/">> \o FinalComponent(members[k].path)
                            IN  /\ target \in DOMAIN disk
                                /\ \E j \in DOMAIN members :
                                    /\ FinalComponent(members[j].path)
                                            = FinalComponent(members[k].path)
                                    /\ disk[target] = slice(j)
            ELSE /\ ~cands[i].archive
                 /\ cands[i].wrote = { Tail(ext.lines[i]) }
                 /\ Tail(ext.lines[i]) \in DOMAIN disk

\* C18: once create has returned, no step of an open(), a read_file() or an
\* extract() changes the Entry Table or the archive handles; and two open()
\* calls of one name that both got their mapping end alike, with the same
\* bytes behind the reader, whatever ran before or beside them.
C18_NeverMutated ==
    /\ [][vfs = "ok" => (entries' = entries /\ archives' = archives)]_vars
    /\ [](\A c1, c2 \in Calls :
            ( /\ calls[c1].pc = "done"
              /\ calls[c2].pc = "done"
              /\ calls[c1].name = calls[c2].name
              /\ calls[c1].result # "UnableToMap"
              /\ calls[c2].result # "UnableToMap" )
            => /\ calls[c1].result = calls[c2].result
               /\ calls[c1].reader = calls[c2].reader)

\* The input lines of a text by the position of their first character: a
\* line starts at the start of the text and after every line feed, ends
\* before the next line feed (and the carriage return that precedes it) or
\* at the end of the text.
LineFeeds(text) == { i \in DOMAIN text : text[i] = "\n" }
LineStarts(text) ==
    { s \in ({1} \cup { i + 1 : i \in LineFeeds(text) }) : s <= Len(text) }
LineAt(text, s) ==
    LET after == { i \in LineFeeds(text) : i >= s }
        feed == CHOOSE i \in after : \A j \in after : i <= j
    IN  IF after = {} THEN SubSeq(text, s, Len(text))
        ELSE IF feed > s /\ text[feed - 1] = "\r" THEN SubSeq(text, s, feed - 2)
        ELSE SubSeq(text, s, feed - 1)

\* The lines that are not blank (they have a character) and not
\* comment-prefixed (their first character is not '#').
Kept(text) ==
    { s \in LineStarts(text) : LineAt(text, s) # <<>> /\ LineAt(text, s)[1] # "#" }

\* C19: dictionary yields one path per line of the text that is neither
\* blank nor starts with '#', in the order of the text and with duplicates
\* kept: the k-th path is the k-th such line.
C19_DictionaryLines ==
    dictfile.read =>
        LET text == dictfile.contents
        IN  /\ Len(dict) = Cardinality(Kept(text))
            /\ \A s \in Kept(text) :
                dict[Cardinality({ t \in Kept(text) : t <= s })] = LineAt(text, s)

\* C19 witness: a text with a comment line between two equal lines has
\* yielded the line twice.
C19_Witness ==
    /\ dictfile.read
    /\ dictfile.contents = <<"a", "\n", "#", "\n", "a">>
    /\ dict = << <<"a">>, <<"a">> >>

\* Every block of every range task of the call has been decrypted in the
\* bytes the reader holds.
RangesDecrypted(c) ==
    \A t \in DOMAIN calls[c].tasks :
        LET task == calls[c].tasks[t]
        IN  /\ task.next = task.num_blocks
            /\ \A k \in 0 .. (task.num_blocks - 1) :
                \A o \in (task.start + k * BlockSize) ..
                         (task.start + (k + 1) * BlockSize - 1) :
                    o < calls[c].reader.mmap.len =>
                        calls[c].reader.mmap.data[o] # <<>>

\* C20: a call of open() holds a reader only when every range task of the
\* call has finished and the mapping is read-only, and from then on no step
\* of any call changes the bytes of that mapping: the reader a holder has is
\* the same after every step.
C20_ReaderAfterFreeze ==
    /\ [](\A c \in Calls :
            calls[c].reader # NoReader =>
                /\ calls[c].result = "Ok"
                /\ calls[c].mmap.state = "readonly"
                /\ calls[c].reader.mmap.state = "readonly"
                /\ RangesDecrypted(c))
    /\ [][\A c \in Calls :
            /\ (calls[c].reader # NoReader /\ calls'[c].reader # NoReader)
                    => calls'[c].reader = calls[c].reader
            /\ (calls[c].mmap.state = "readonly" /\ calls'[c].mmap.state = "readonly")
                    => calls'[c].mmap.data = calls[c].mmap.data]_vars

\* C20 witness: one call holds the reader of an entry with two ranges, all
\* three blocks decrypted, while another call of the same entry is still
\* decrypting its own mapping.
C20_Witness ==
    \E c1, c2 \in Calls :
        /\ calls[c1].reader # NoReader
        /\ Len(calls[c1].tasks) = 2
        /\ calls[c1].decrypted = 3
        /\ calls[c2].pc = "decrypt"
        /\ calls[c2].decrypted = 1

\* Two ranges of the record, at different places of its list, are declared,
\* well-ordered from 0 on and share a byte.
Overlapping(record) ==
    \E j, k \in DOMAIN record.encrypted_ranges :
        LET r == record.encrypted_ranges[j]
            q == record.encrypted_ranges[k]
        IN  /\ j < k
            /\ r \in Declared(record) /\ q \in Declared(record)
            /\ 0 <= r[1] /\ r[1] < r[2]
            /\ 0 <= q[1] /\ q[1] < q[2]
            /\ r[1] < q[2] /\ q[1] < r[2]

\* C21: an open() of an entry whose declared ranges overlap, once past its
\* range check, has failed with CorruptEntry; and no byte of any mapping has
\* been decrypted twice (so no two tasks wrote the same block).
C21_OverlapIsCorruption ==
    \A c \in Calls :
        /\ ( /\ calls[c].mmap.state # "none"
             /\ calls[c].pc # "mapped"
             /\ Overlapping(WinningRecord(calls[c].hash)) )
           => calls[c].result = "CorruptEntry"
        /\ \A o \in DOMAIN calls[c].mmap.data : Len(calls[c].mmap.data[o]) <= 1

\* C22: for an entry whose declared ranges are pairwise disjoint, the bytes
\* the reader of a successful open() exposes are fixed by the record alone,
\* whatever order the pool ran the blocks in: a byte outside every range is
\* the archive's, a byte in a block of a range is that block of archive
\* bytes decrypted under the entry's key.
C22_OrderIndependent ==
    \A c \in Calls :
        (calls[c].result = "Ok" /\ ~Overlapping(WinningRecord(calls[c].hash))) =>
            LET record == WinningRecord(calls[c].hash)
                data == calls[c].reader.mmap.data
            IN  \A o \in DOMAIN data :
                    \/ CoveringBlocks(record, o) = {} /\ data[o] = <<>>
                    \/ /\ Cardinality(CoveringBlocks(record, o)) = 1
                       /\ \A b \in CoveringBlocks(record, o) :
                            data[o] = << <<record.aes_key, b, TRUE>> >>

\* C22 witness: one call has opened an entry with the disjoint ranges (0, 16)
\* and (16, 48) with its first range decrypted first, while another call of
\* the same entry has run its second range before its first.
C22_Witness ==
    \E c1, c2 \in Calls :
        /\ calls[c1].result = "Ok"
        /\ Len(calls[c1].tasks) = 2
        /\ calls[c1].decrypted = 3
        /\ ~Overlapping(WinningRecord(calls[c1].hash))
        /\ calls[c2].hash = calls[c1].hash
        /\ calls[c2].pc = "decrypt"
        /\ calls[c2].tasks[1].next = 0
        /\ calls[c2].tasks[2].next = calls[c2].tasks[2].num_blocks

\* C23: once extract has ended with a candidate that failed with an error
\* other than NotFound, every candidate that had been started has run to
\* completion (none is left open, none has panicked), the files of those that
\* came out Ok are on disk, and the result of extract is an error.
C23_StartedCandidatesFinish ==
    (ext.pc = "done" /\ \E i \in DOMAIN cands : cands[i].kind = "Err") =>
        /\ ext.result.kind = "Err"
        /\ \A i \in DOMAIN cands :
            cands[i].pc # "pending" =>
                /\ cands[i].pc = "done"
                /\ cands[i].kind # "panic"
                /\ (cands[i].kind = "Ok" /\ cands[i].count > 0)
                        => cands[i].wrote # {}

\* C24: once extract has ended, if a candidate that open() resolved met a
\* failure while its output was produced (its closure ended in an error, or
\* the create_dir_all of its output directory failed), extract has returned
\* an error.
C24_FailureAborts ==
    ( /\ ext.pc = "done"
      /\ \E i \in DOMAIN cands :
            /\ cands[i].pc = "done"
            /\ cands[i].open = "Ok"
            /\ cands[i].kind \in {"Ok", "Err"}
            /\ (cands[i].kind = "Err" \/ ~cands[i].create_ok) )
    => ext.result.kind = "Err"

\* C25: a single-item operation whose lookup missed has handed NotFound to
\* its caller as an error value: read_file has returned the NotFound error
\* with no container looked into, a describe operation that has ended has
\* returned that error with no parser run, none has panicked and the process
\* runs.
C25_MissIsReturned ==
    \A c \in Calls :
        calls[c].result = "NotFound" =>
            /\ proc = "running"
            /\ reads[c].pc = "done" =>
                /\ reads[c].result = ReadErr("NotFound")
                /\ reads[c].hops = 0
            /\ describes[c].pc = "done" =>
                /\ describes[c].result = [kind |-> "Err", err |-> "NotFound"]
                /\ ~describes[c].parsed

\* What a candidate is to add to the total: 0 when no archive holds its name,
\* the file count of its container when it is unwrapped, 1 otherwise.
PerCandidate(i) ==
    IF i \notin Resolvable THEN 0
    ELSE IF ext.recursive /\ EndsWithBndDcx(ext.lines[i]) THEN HeldBy(i).body.file_count
    ELSE 1
RECURSIVE SumPerCandidate(_)
SumPerCandidate(n) == IF n = 0 THEN 0 ELSE PerCandidate(n) + SumPerCandidate(n - 1)

\* C26: the total extract computes is the sum of the per-candidate counts,
\* however the candidates were shared out among the workers and in whatever
\* order they were taken.
C26_TotalIsSum ==
    ext.result.kind = "Ok" => ext.result.count = SumPerCandidate(Len(cands))

\* C26 witness: a container of two members and a plain file were processed
\* by two workers and the total is 3.
C26_Witness ==
    /\ ext.result.kind = "Ok"
    /\ ext.result.count = 3
    /\ folds[1].total > 0
    /\ folds[2].total > 0

\* C27: an event, part or point record whose header reads and whose type
\* discriminant is none of the layout's known values is decoded into a
\* record of the variant Unknown, not into a failure.
C27_UnknownIsAVariant ==
    ( /\ msb.pc = "read"
      /\ msb.header = "ok"
      /\ msb.type_id \notin DOMAIN TypeTable(msb.layout) )
    => /\ msb.result.kind = "Ok"
       /\ msb.result.type = "Unknown"

\* C28: in a DvdBnd that create returned, the archive index of every entry
\* is an index of the handle list, the handle there is the data file of the
\* archive given at that position, and a record of that archive's table of
\* contents supplied the entry; every mapping an open() makes is of that
\* data file.
C28_ArchiveIndexValid ==
    vfs = "ok" =>
        /\ \A hash \in DOMAIN entries :
            LET at == entries[hash].archive + 1
            IN  /\ at \in DOMAIN archives
                /\ archives[at] = at
                /\ \E k \in DOMAIN paths[at].toc :
                    /\ paths[at].toc[k].hash = hash
                    /\ paths[at].toc[k].offset = entries[hash].file_offset
                    /\ paths[at].toc[k].size = entries[hash].file_size
                    /\ paths[at].toc[k].padded_size = entries[hash].file_size_with_padding
                    /\ paths[at].toc[k].aes_key = entries[hash].aes_key
        /\ \A c \in Calls : calls[c].mmap.state # "none" =>
            /\ calls[c].hash \in DOMAIN entries
            /\ calls[c].mmap.arch = entries[calls[c].hash].archive + 1
            /\ calls[c].mmap.arch \in Holders(calls[c].hash)

\* C28 witness: two archives were loaded, each the only holder of one hash,
\* and an open() of the second archive's entry has mapped the second data file.
C28_Witness ==
    /\ vfs = "ok"
    /\ Len(archives) = 2
    /\ Holders(1) = {1}
    /\ Holders(2) = {2}
    /\ \E c \in Calls :
        /\ calls[c].result = "Ok"
        /\ calls[c].hash = 2
        /\ calls[c].reader.mmap.arch = 2

\* C29: the size of the reader of a successful open() is at most the length
\* of its mapping.
C29_SizeWithinMapping ==
    \A c \in Calls :
        calls[c].result = "Ok" => calls[c].reader.size <= calls[c].reader.mmap.len

\* C30: a candidate of extract for which open() returned a reader ends in a
\* count or in an error value: its closure does not panic, extract does not
\* unwind and the process runs.
C30_CandidateNeverPanics ==
    \A i \in DOMAIN cands :
        (cands[i].pc = "done" /\ cands[i].open = "Ok") =>
            /\ cands[i].kind \in {"Ok", "Err"}
            /\ ext.pc = "done" => ext.result.kind \in {"Ok", "Err"}
            /\ proc = "running"

====
